---- MODULE Spec2Model ----
(***************************************************************************)
(* Discrete-event microsimulation: the cMessage/cProcess layer and the     *)
(* EventReport aggregator of microsimulation.h, and the three clients      *)
(* built on them: the illness-death model (illness-death.cpp), the         *)
(* calibration model (calibperson-r.cc) and the prostate-cancer model      *)
(* (fhcrc-example.cpp).                                                    *)
(*                                                                         *)
(* Time is counted in ticks, Year ticks to the year, so that a draw can    *)
(* fall between two whole ages.  Utilities are counted in hundredths.      *)
(* Every random draw of the code is a choice from a small set of values.   *)
(* The Sim kernel (ssim.h) is not part of the sources: its operations are  *)
(* modelled from the specification of the kernel.                          *)
(***************************************************************************)
EXTENDS Integers, Sequences, FiniteSets, TLC

\* ---------------------------------------------------------------- bounds
\* ticks per year
Year == 2
\* largest n a driver is called with (illness-death and calibration)
MaxN == 2

\* ------------------------------------------------------- program constants
\* illness-death.cpp:75 and fhcrc-example.cpp:785: vector<double> ages(101)
NAges == 101
\* illness-death.cpp:77 and fhcrc-example.cpp:787: ages.push_back(1.0e+6)
AgeInfinity == 1000000

NoMsg == [kind |-> "none"]
NoProcess == "none"

VARIABLES
  driver,            \* the entry point called: "illness", "calib" or "fhcrc"
  n,                 \* the number of individuals asked for
  i,                 \* the loop index of the driver
  pc,                \* the driver's position: "create", "run", "loop", "clear", "done", "aborted"
  clock,             \* Sim::clock()
  queue,             \* the kernel's pending entries
  running,           \* the kernel's running flag
  current_process,   \* the process attached to the kernel
  nextSeq,           \* the kernel's insertion sequence
  error,             \* the failure that ended the run, or "none"
  msg,               \* the message being handled, or NoMsg
  person,            \* the process object of the driver
  report,            \* the EventReport of the driver
  costs,             \* the CostReport of the cancer model
  rng,               \* the random stream last set()
  parms,             \* the inputs of the cancer model: screen and cohort
  hist               \* history of the current run (not program state)

inputs == <<driver, n, parms>>
vars == <<driver, n, parms, i, pc, clock, queue, running, current_process,
          nextSeq, error, msg, person, report, costs, rng, hist>>

\* ------------------------------------------------------------ helpers
Min(a, b) == IF a < b THEN a ELSE b

\* m[k] += d on a std::map: the entry is created (as 0) when absent
MapAdd(m, k, d) ==
  IF k \in DOMAIN m THEN [m EXCEPT ![k] = @ + d] ELSE m @@ (k :> d)

\* the sum of all values of map new less the sum of all values of map old,
\* for a map new that has every key of old
RECURSIVE SumOver(_, _, _)
SumOver(new, old, keys) ==
  IF keys = {} THEN 0
  ELSE LET k == CHOOSE x \in keys : TRUE
       IN new[k] - (IF k \in DOMAIN old THEN old[k] ELSE 0)
            + SumOver(new, old, keys \ {k})
MapGrowth(new, old) ==
  SumOver(new, old, {k \in DOMAIN new : k \notin DOMAIN old \/ new[k] # old[k]})

\* ------------------------------------------------------------ cMessage
\* cMessage(k, n): kind, name, sendingTime = Sim::clock(); timestamp is set
\* by scheduleAt.  payload is the extra field of cMessageUtility /
\* cMessageUtilityChange (0 for a plain cMessage).
cMessage(k, payload, clk) ==
  [kind |-> k, name |-> "", sendingTime |-> clk, timestamp |-> -1,
   payload |-> payload]

\* cMessageKindEq: msg != NULL && msg->kind == k
cMessageKindEq_NotEq(e, k) == e.kind # k
cMessageKindEq(e, k) == e.kind = k

\* ----------------------------------------------------------- Sim kernel
\* The kernel state threaded through one init() or handler call.
Kernel == [queue |-> queue, nextSeq |-> nextSeq, running |-> running,
           error |-> error, removedSeqs |-> hist.removedSeqs,
           removedKinds |-> {}, refused |-> hist.refused]

\* Sim::self_signal_event(e, delay): queue e for the current process at
\* clock + delay, after every entry already queued for that time; a negative
\* delay is a TimeReversal, and the message is not queued.  Nothing is done
\* once a call has failed.
self_signal_event(K, clk, m, delay) ==
  IF K.error # "none" THEN K
  ELSE IF delay < 0 THEN [K EXCEPT !.error = "TimeReversal", !.refused = m]
  ELSE LET e == [time |-> clk + delay, seq |-> K.nextSeq, owner |-> i] @@ m
       IN [K EXCEPT !.queue = @ \cup {e}, !.nextSeq = @ + 1]

\* Sim::stop_simulation()
stop_simulation(K) ==
  IF K.error # "none" THEN K ELSE [K EXCEPT !.running = FALSE]

\* Sim::remove_event(pred) with pred = cMessageKindEq(., kind): RemoveKind
RemoveKind(K, kind) ==
  IF K.error # "none" THEN K
  ELSE LET gone == {e \in K.queue : cMessageKindEq(e, kind)}
       IN [K EXCEPT !.queue = @ \ gone,
                    !.removedSeqs = @ \cup {e.seq : e \in gone},
                    !.removedKinds = @ \cup {kind}]

\* the entry the run loop pops: smallest time, then smallest sequence
First(q) ==
  CHOOSE e \in q : \A f \in q :
    e.time < f.time \/ (e.time = f.time /\ e.seq <= f.seq)

\* ------------------------------------------------------------- cProcess
\* cProcess::scheduleAt(t, msg): msg->timestamp = t;
\* Sim::self_signal_event(msg, t - Sim::clock())
scheduleAt_NoClock(K, clk, t, m) ==
  self_signal_event(K, clk, [m EXCEPT !.timestamp = t], t)
scheduleAt_Clamped(K, clk, t, m) ==
  self_signal_event(K, clk, [m EXCEPT !.timestamp = t],
                    IF t < clk THEN 0 ELSE t - clk)
scheduleAt(K, clk, t, m) ==
  self_signal_event(K, clk, [m EXCEPT !.timestamp = t], t - clk)

\* scheduleAt(t, short k): scheduleAt(t, new cMessage(k))
scheduleAtKind(K, clk, t, k) == scheduleAt(K, clk, t, cMessage(k, 0, clk))

\* ----------------------------------------------------------- EventReport
\* lower_bound(_partition.begin(), _partition.end(), x): the first position
\* whose element is >= x, Len + 1 for end()
RECURSIVE lower_bound_from(_, _, _)
lower_bound_from(p, x, j) ==
  IF j > Len(p) \/ p[j] >= x THEN j ELSE lower_bound_from(p, x, j + 1)
lower_bound(p, x) == lower_bound_from(p, x, 1)

\* max_element
max_element(p) == CHOOSE x \in {p[j] : j \in 1..Len(p)} :
                    \A j \in 1..Len(p) : p[j] <= x

\* EventReport::clear() on the report of static storage: the maps and the
\* partition are empty; _max, which clear() does not touch, is the 0 the
\* object was initialised with
EventReport_clear ==
  [partition |-> <<>>, max |-> 0, pt |-> <<>>, events |-> <<>>, prev |-> <<>>]

setPartition_Append(r, partition) ==
  [r EXCEPT !.partition = @ \o partition,
            !.max = max_element(r.partition \o partition)]

\* EventReport::setPartition(partition)
setPartition(r, partition) ==
  [r EXCEPT !.partition = partition, !.max = max_element(partition)]

RECURSIVE add_loop_WholeBucket(_, _, _, _, _, _)
add_loop_WholeBucket(r, state, lhs, rhs, itmax, it) ==
  IF r.partition[it] < itmax
  THEN LET a   == r.partition[it]
           b   == r.partition[it + 1]
           r1  == [r EXCEPT !.pt = MapAdd(@, <<state, a>>, b - a)]
           r2  == IF lhs <= a /\ a < rhs
                  THEN [r1 EXCEPT !.prev = MapAdd(@, <<state, a>>, 1)]
                  ELSE r1
       IN add_loop_WholeBucket(r2, state, lhs, rhs, itmax, it + 1)
  ELSE [rep |-> r, it |-> it]

RECURSIVE add_loop_PrevAlways(_, _, _, _, _, _)
add_loop_PrevAlways(r, state, lhs, rhs, itmax, it) ==
  IF r.partition[it] < itmax
  THEN LET a   == r.partition[it]
           b   == r.partition[it + 1]
           d   == (IF b < rhs THEN b ELSE rhs) - (IF a < lhs THEN lhs ELSE a)
           r1  == [r EXCEPT !.pt = MapAdd(@, <<state, a>>, d)]
           r2  == [r1 EXCEPT !.prev = MapAdd(@, <<state, a>>, 1)]
       IN add_loop_PrevAlways(r2, state, lhs, rhs, itmax, it + 1)
  ELSE [rep |-> r, it |-> it]

\* the loop of EventReport::add, from iterator position it
RECURSIVE add_loop(_, _, _, _, _, _)
add_loop(r, state, lhs, rhs, itmax, it) ==
  IF r.partition[it] < itmax
  THEN LET a   == r.partition[it]
           b   == r.partition[it + 1]
           d   == (IF b < rhs THEN b ELSE rhs) - (IF a < lhs THEN lhs ELSE a)
           r1  == [r EXCEPT !.pt = MapAdd(@, <<state, a>>, d)]
           r2  == IF lhs <= a /\ a < rhs
                  THEN [r1 EXCEPT !.prev = MapAdd(@, <<state, a>>, 1)]
                  ELSE r1
       IN add_loop(r2, state, lhs, rhs, itmax, it + 1)
  ELSE [rep |-> r, it |-> it]

\* EventReport::add(state, event, lhs, rhs), for 0 < rhs and lhs within the
\* partition (every call of the drivers)
add_AlwaysEvent(r, state, event, lhs, rhs) ==
  LET lo0   == lower_bound(r.partition, lhs)
      lo    == IF lhs < r.partition[lo0] THEN lo0 - 1 ELSE lo0
      itmax == IF rhs < r.max THEN rhs ELSE r.max
      after == add_loop(r, state, lhs, rhs, itmax, lo)
  IN [after.rep EXCEPT
        !.events = MapAdd(@, <<state, event, r.partition[after.it - 1]>>, 1)]
add_body(r, state, lhs, rhs) ==
  LET lo0   == lower_bound(r.partition, lhs)
      lo    == IF lhs < r.partition[lo0] THEN lo0 - 1 ELSE lo0
      itmax == IF rhs < r.max THEN rhs ELSE r.max
  IN add_loop(r, state, lhs, rhs, itmax, lo)
add(r, state, event, lhs, rhs) ==
  LET after == add_body(r, state, lhs, rhs)
  IN IF rhs < r.max
     THEN [after.rep EXCEPT
             !.events = MapAdd(@, <<state, event, r.partition[after.it - 1]>>, 1)]
     ELSE after.rep

\* the driver's partition: ages 0, 1, ..., 100 and then 1.0e+6
ages == [j \in 1..(NAges + 1) |->
           IF j <= NAges THEN (j - 1) * Year ELSE AgeInfinity * Year]

\* ------------------------------------------------------------ history
\* lastMsg: the message handled before the current one in this run;
\* removedSeqs: the entries remove_event took out of the queue in this run;
\* removedKinds: the kinds the last handler removed; before: the queue as
\* the last handler found it; deaths: the death messages handled in this
\* run; ptAdded: the person-time this individual has added to the report;
\* refused: the message whose scheduling failed, if one did; trace: the
\* messages handled in this run, in order; draws: the values the last
\* handler drew, when it was the handler of toTreatment
NoHist == [lastMsg |-> NoMsg, removedSeqs |-> {}, removedKinds |-> {},
           before |-> {}, deaths |-> 0, ptAdded |-> 0, refused |-> NoMsg,
           trace |-> <<>>, draws |-> <<>>, lookups |-> {}]

DeathKinds == {"toOtherDeath", "toCancerDeath", "toDeath"}

\* ------------------------------------------------- illness-death model
\* draws of R::rweibull(4.0, b_weibull(4.0, 80.0)): age at other death
OtherDeathDraws == {40 * Year + 1, 70 * Year}
\* draws of R::rweibull(3.0, b_weibull(4.0, 80.0, z)): age at cancer
CancerDraws == {30 * Year + 1, 70 * Year, 75 * Year}
\* draws of R::rweibull(1.0, 10.0): time from cancer to cancer death
CancerDeathDraws == {0, 5 * Year}

\* SimplePerson(i): id(i), previousEventTime(0.0); state and z are set by init()
SimplePerson(id) ==
  [id |-> id, previousEventTime |-> 0, state |-> "Healthy", z |-> 1]

\* SimplePerson::init(), with the draws d (other death), u < 0.1 (cancer) and c
SimplePerson_init(K, p, d, u, c) ==
  LET p1 == [p EXCEPT !.state = "Healthy", !.z = 1]
      K1 == scheduleAtKind(K, clock, d, "toOtherDeath")
      K2 == IF u THEN scheduleAtKind(K1, clock, c, "toCancer") ELSE K1
  IN [K |-> K2, p |-> p1]

\* SimplePerson::handleMessage(msg), with the draws u < 0.5 and w
SimplePerson_handleMessage_NoStop(K, p, r, m, u, w) ==
  LET r1 == add(r, p.state, m.kind, p.previousEventTime, clock)
  IN CASE m.kind = "toCancer" ->
            LET K1 == RemoveKind(K, "toOtherDeath")
                K2 == IF u THEN scheduleAtKind(K1, clock, clock + w, "toCancerDeath")
                      ELSE K1
            IN [K |-> K2, p |-> [p EXCEPT !.state = "Cancer"], r |-> r1]
       [] OTHER -> [K |-> K, p |-> p, r |-> r1]
SimplePerson_handleMessage(K, p, r, m, u, w) ==
  LET r1 == add(r, p.state, m.kind, p.previousEventTime, clock)
  IN CASE m.kind \in {"toOtherDeath", "toCancerDeath"} ->
            [K |-> stop_simulation(K), p |-> p, r |-> r1]
       [] m.kind = "toCancer" ->
            LET K1 == RemoveKind(K, "toOtherDeath")
                K2 == IF u THEN scheduleAtKind(K1, clock, clock + w, "toCancerDeath")
                      ELSE K1
            IN [K |-> K2, p |-> [p EXCEPT !.state = "Cancer"], r |-> r1]
       [] OTHER -> [K |-> K, p |-> p, r |-> r1]

\* -------------------------------------------------- calibration model
\* draws of R::rexp(lam1): age at the precursor stage
PrecursorDraws == {5 * Year + 1, 30 * Year}
\* draws of 65 - 15*log(-log(x)): age at death
GumbelDraws == {15 * Year, 20 * Year, 45 * Year + 1, 101 * Year}
\* draws of R::rexp(lam2) and of exp(R::rnorm(mu3, tau3*mu3)): dwell times
DwellDraws == {2 * Year}

\* double ctime[] = {20,40,60,80}
ctime == <<20 * Year, 40 * Year, 60 * Year, 80 * Year>>

\* CalibPerson(par, 0): the constructor sets the parameters and id, and
\* cProcess() sets previousEventTime(0.0); the other fields are set by init()
CalibPerson(id) ==
  [id |-> id, previousEventTime |-> 0, stage |-> "DiseaseFree",
   diseasepot |-> FALSE, clinTime |-> 0]

CalibPerson_init_DeathLast(K, p, u, e, g) ==
  LET p1 == [p EXCEPT !.diseasepot = u, !.clinTime = 1000 * Year,
                      !.stage = "DiseaseFree"]
      K1 == scheduleAtKind(K, clock, e, "toPrecursor")
      counts[j \in 0..10] ==
        IF j = 0 THEN K1
        ELSE scheduleAtKind(counts[j - 1], clock, (10 * j) * Year, "Count")
  IN [K |-> scheduleAtKind(counts[10], clock, g, "toDeath"), p |-> p1]

\* CalibPerson::init(), with the draws u < p2, e (precursor) and g (death)
CalibPerson_init(K, p, u, e, g) ==
  LET p1 == [p EXCEPT !.diseasepot = u, !.clinTime = 1000 * Year,
                      !.stage = "DiseaseFree"]
      K1 == scheduleAtKind(K, clock, e, "toPrecursor")
      K2 == scheduleAtKind(K1, clock, g, "toDeath")
      counts[j \in 0..10] ==
        IF j = 0 THEN K2
        ELSE scheduleAtKind(counts[j - 1], clock, (10 * j) * Year, "Count")
  IN [K |-> counts[10], p |-> p1]

\* int(x) for x = num / den with den > 0: truncation towards zero
Trunc(num, den) == IF num >= 0 THEN num \div den ELSE -((-num) \div den)

\* the loop over ctime in the toDeath branch, from index j (0-based)
RECURSIVE TimeAtRisk_loop(_, _, _)
TimeAtRisk_loop(v, clinTime, j) ==
  IF j >= 4 THEN v
  ELSE LET x  == Min(ctime[j + 1], clinTime)
           v1 == IF j < Len(v) THEN [v EXCEPT ![j + 1] = @ + x] ELSE Append(v, x)
       IN IF clinTime < ctime[j + 1] THEN v1
          ELSE TimeAtRisk_loop(v1, clinTime, j + 1)

\* CalibPerson::handleMessage(msg), with the dwell-time draw w
CalibPerson_handleMessage(K, p, r, m, w) ==
  CASE m.kind = "toDeath" ->
         LET ct == Min(p.clinTime, clock)
         IN [K |-> stop_simulation(K),
             p |-> [p EXCEPT !.stage = "Death", !.clinTime = ct],
             r |-> [r EXCEPT !["TimeAtRisk"] = TimeAtRisk_loop(@, ct, 0)]]
    [] m.kind = "toPrecursor" ->
         [K |-> IF p.diseasepot
                THEN scheduleAtKind(K, clock, clock + w, "toPreClinical")
                ELSE K,
          p |-> [p EXCEPT !.stage = "Precursor"], r |-> r]
    [] m.kind = "toPreClinical" ->
         [K |-> scheduleAtKind(K, clock, clock + w, "toClinical"),
          p |-> [p EXCEPT !.stage = "PreClinical"], r |-> r]
    [] m.kind = "toClinical" ->
         [K |-> K, p |-> [p EXCEPT !.stage = "Clinical", !.clinTime = clock],
          r |-> r]
    [] m.kind = "Count" ->
         LET cind == Min(9, Trunc(clock - 10 * Year, 10 * Year))
             r1   == IF p.stage \in DOMAIN r THEN r
                     ELSE r @@ (p.stage :> [j \in 1..10 |-> 0])
         IN [K |-> K, p |-> p,
             r |-> [r1 EXCEPT ![p.stage][cind + 1] = @ + 1]]
    [] OTHER -> [K |-> K, p |-> p, r |-> r]

\* ------------------------------------------------ prostate-cancer model
\* enum screen_t
ScreenPolicies ==
  {"noScreening", "randomScreen50to70", "twoYearlyScreen50to70",
   "fourYearlyScreen50to70", "screen50", "screen60", "screen70",
   "screenUptake", "stockholm3_goteborg", "stockholm3_risk_stratified"}

\* the inputs the driver is called with: the screening policy and the cohort
\* (birth year) of each individual, here every policy for one man born in
\* 1962 and no screening for two of them; the thresholds of parameter[]; and
\* the durations (ticks) and sizes (hundredths) of the utility changes
FhcrcInputs ==
  {[screen |-> s, cohort |-> <<1962>>] : s \in ScreenPolicies}
    \cup {[screen |-> "noScreening", cohort |-> <<1962, 1962>>]}
parameter == [psaThreshold |-> 4, psaThresholdBiopsyFollowUp |-> 4]
utility_duration ==
  [FormalPSAUtilityDuration |-> 0, OpportunisticPSAUtilityDuration |-> 0,
   BiopsyUtilityDuration |-> 0,
   ProstatectomyUtilityDurationPart1 |-> 1, ProstatectomyUtilityDurationPart2 |-> Year,
   RadiationTherapyUtilityDurationPart1 |-> 1, RadiationTherapyUtilityDurationPart2 |-> Year,
   ActiveSurveillanceUtilityDuration |-> Year,
   MetastaticCancerUtilityDuration |-> 3 * Year, PalliativeUtilityDuration |-> 1]
utility_estimates ==
  [FormalPSAUtility |-> 1, OpportunisticPSAUtility |-> 1, BiopsyUtility |-> 2,
   ProstatectomyUtilityPart1 |-> 3, ProstatectomyUtilityPart2 |-> 2,
   RadiationTherapyUtilityPart1 |-> 3, RadiationTherapyUtilityPart2 |-> 2,
   ActiveSurveillanceUtility |-> 1, MetastaticCancerUtility |-> 10,
   PalliativeUtility |-> 20]
cost_parameters(item) == 1
panel == FALSE

\* draws of sqrt(2*R::rexp(1.0)/g0): onset, in ticks after age 35
T0Draws == {10 * Year, 16 * Year}
\* draws of tm - t0, tc - t0 and tmc - tm: each of the three equations adds a
\* positive exponential draw to the PSA level at the earlier time, so that
\* tm >= t0, tc >= t0 and tmc >= tm
TmDraws == {4 * Year, 6 * Year + 1}
TcDraws == {5 * Year + 1, 6 * Year}
TmcDraws == {Year + 1}
\* draws of rmu0.rand(R::runif(0.0,1.0)): age at other-cause death
AocDraws == {40 * Year, 53 * Year}
\* draws of the grade and of the refinement to Gleason 7
GradeDraws == {"Gleason_le_7"}
Grade7Draws == {TRUE}
\* draws of the measured PSA y(t)
PsaDraws == {3, 5}
\* draws of R::runif(50.0,70.0), of the log-logistic time to a first screen,
\* of R::runif(2013.0,2015.0) - 2013 and of the Weibull time to a re-screen
RandomScreenDraws == {55 * Year + 1}
FirstScreenDraws == {16 * Year}
OrganisedDraws == {Year}
RescreenDraws == {3 * Year}
\* the rows of the prtx table, in hundredths; the row whose pCM and pRP sum
\* to more than 1 is taken with the draws at or above its pCM
PrtxRows == {[CM |-> 30, RP |-> 40], [CM |-> 60, RP |-> 60]}
\* draws of a handler: whether the man complies (with the biopsy, with the
\* follow-up screen), and in toTreatment u_tx (hundredths), u_adt < pADT and
\* the survival times
ComplianceDraws == {TRUE}
TreatmentDraws ==
  {[u_tx |-> 10, adt |-> FALSE, surv |-> <<2 * Year, 2 * Year>>],
   [u_tx |-> 50, adt |-> TRUE, surv |-> <<2 * Year, 6 * Year>>],
   [u_tx |-> 90, adt |-> FALSE, surv |-> <<2 * Year, 6 * Year>>]}

\* FhcrcPerson(id, cohort): id, cohort, utility(1.0), previousEventTime(0.0);
\* every other field is set by init()
FhcrcPerson(id, cohort) ==
  [id |-> id, cohort |-> cohort, utility |-> 100, previousEventTime |-> 0,
   t0 |-> 0, tm |-> 0, tc |-> 0, tmc |-> 0, state |-> "Healthy",
   dx |-> "NotDiagnosed", grade |-> "Gleason_le_7", ext_grade |-> "Gleason_le_6",
   tx |-> "no_treatment", adt |-> FALSE, everPSA |-> FALSE,
   previousNegativeBiopsy |-> FALSE, organised |-> FALSE]

\* scheduleAt(t, new cMessageUtility(u)), scheduleAt(t, new cMessageUtilityChange(d))
scheduleUtility(K, t, u) ==
  scheduleAt(K, clock, t, cMessage("toUtility", u, clock))
scheduleUtilityChange(K, t, d) ==
  scheduleAt(K, clock, t, cMessage("toUtilityChange", d, clock))

\* a list of scheduleAt(t, kind) calls, in order
RECURSIVE scheduleAll(_, _, _)
scheduleAll(K, ts, k) ==
  IF ts = <<>> THEN K
  ELSE scheduleAll(scheduleAtKind(K, clock, Head(ts), k), Tail(ts), k)

RECURSIVE ScreenAges_Exclusive(_, _)
ScreenAges_Exclusive(start, step) ==
  IF start < 70 * Year
  THEN <<start>> \o ScreenAges_Exclusive(start + step, step) ELSE <<>>
RECURSIVE ScreenAges_Beyond(_, _)
ScreenAges_Beyond(start, step) ==
  IF start <= 72 * Year
  THEN <<start>> \o ScreenAges_Beyond(start + step, step) ELSE <<>>

\* for (double start = 50.0; start <= 70.0; start += step)
RECURSIVE ScreenAges(_, _)
ScreenAges(start, step) ==
  IF start <= 70 * Year THEN <<start>> \o ScreenAges(start + step, step) ELSE <<>>

\* the screening part of FhcrcPerson::init(): the switch on screen
init_screening(K, screen, cohort, d) ==
  CASE screen = "noScreening" -> K
    [] screen = "randomScreen50to70" -> scheduleAtKind(K, clock, d.random, "toScreen")
    [] screen = "twoYearlyScreen50to70" ->
         scheduleAll(K, ScreenAges(50 * Year, 2 * Year), "toScreen")
    [] screen = "fourYearlyScreen50to70" ->
         scheduleAll(K, ScreenAges(50 * Year, 4 * Year), "toScreen")
    [] screen = "screen50" -> scheduleAtKind(K, clock, 50 * Year, "toScreen")
    [] screen = "screen60" -> scheduleAtKind(K, clock, 60 * Year, "toScreen")
    [] screen = "screen70" -> scheduleAtKind(K, clock, 70 * Year, "toScreen")
    [] screen \in {"stockholm3_goteborg", "stockholm3_risk_stratified", "screenUptake"} ->
         LET age0 == (1995 - cohort) * Year
             first_screen ==
               IF cohort > 1960 THEN 35 * Year + d.first
               ELSE IF cohort < 1945 THEN age0 + d.first
               ELSE IF d.mixture THEN age0 + (age0 - 35 * Year) + d.first
               ELSE age0 + d.first
         IN IF d.uptake THEN scheduleAtKind(K, clock, first_screen, "toScreen") ELSE K
    [] OTHER -> K

\* FhcrcPerson::init(), with the draws d
FhcrcPerson_init(K, p, screen, d) ==
  LET tm == d.t0 + d.dm
      p1 == [p EXCEPT !.state = "Healthy", !.dx = "NotDiagnosed",
                      !.everPSA = FALSE, !.previousNegativeBiopsy = FALSE,
                      !.organised = FALSE, !.adt = FALSE,
                      !.t0 = d.t0, !.grade = d.grade,
                      !.tm = tm, !.tc = d.t0 + d.dc, !.tmc = tm + d.dmc,
                      !.ext_grade = IF d.grade = "Gleason_le_7"
                                    THEN (IF d.grade7 THEN "Gleason_7" ELSE "Gleason_le_6")
                                    ELSE "Gleason_ge_8",
                      !.tx = "no_treatment", !.utility = 98]
      K1 == scheduleAtKind(K, clock, d.t0 + 35 * Year, "toLocalised")
      K2 == scheduleAtKind(K1, clock, d.aoc, "toOtherDeath")
      K3 == IF d.complies THEN init_screening(K2, screen, p.cohort, d) ELSE K2
      K4 == IF /\ d.participates
               /\ screen \in {"stockholm3_goteborg", "stockholm3_risk_stratified"}
               /\ 2013 - p.cohort >= 50 /\ 2013 - p.cohort < 70
            THEN scheduleAtKind(K3, clock, (2013 - p.cohort) * Year + d.organised,
                                "toOrganised")
            ELSE K3
      K5 == scheduleUtility(K4, 20 * Year, 97)
      K6 == scheduleUtility(K5, 40 * Year, 96)
      K7 == scheduleUtility(K6, 60 * Year, 95)
      K8 == scheduleUtility(K7, 80 * Year, 91)
  IN [K |-> K8, p |-> p1, rng |-> "Nh"]

\* CostReport::add(key, t, amount) with discount rate 0: the amount is added
\* under the key and the age bucket of t
CostReport_add(c, key, t, amount) ==
  MapAdd(c, <<key[1], key[2], (t \div Year) * Year>>, amount)

\* FhcrcPerson::add_costs(item)
add_costs(c, p, item) ==
  CostReport_add(c, <<item, p.cohort>>, clock, cost_parameters(item))

calculate_treatment_Swapped(u, row) ==
  IF u < row.CM THEN "RP" ELSE IF u < row.CM + row.RP THEN "CM" ELSE "RT"

\* calculate_treatment(u, age, year): CM below pCM, RP below pCM + pRP, else RT
calculate_treatment(u, row) ==
  IF u < row.CM THEN "CM" ELSE IF u < row.CM + row.RP THEN "RP" ELSE "RT"

\* the utility decrement now and its recovery after the duration
UtilityPair(K, est, dur) ==
  scheduleUtilityChange(scheduleUtilityChange(K, clock, -est), clock + dur, est)

\* the toScreen / toBiopsyFollowUpScreen branch of handleMessage
handleScreen(K, p, c, m, screen, d) ==
  LET c1 == IF p.organised
            THEN add_costs(add_costs(c, p, "InvitationCost"), p,
                           IF panel THEN "FormalPSABiomarkerCost" ELSE "FormalPSACost")
            ELSE add_costs(c, p, IF panel THEN "OpportunisticPSABiomarkerCost"
                                 ELSE "OpportunisticPSACost")
      c2 == IF p.organised
            THEN add_costs(c1, p, IF screen = "stockholm3_risk_stratified" /\ d.psa >= 1
                                  THEN "FormalPSABiomarkerCost" ELSE "FormalPSACost")
            ELSE add_costs(c1, p, "OpportunisticPSACost")
      K1 == IF p.organised
            THEN UtilityPair(K, utility_estimates.FormalPSAUtility,
                             utility_duration.FormalPSAUtilityDuration)
            ELSE UtilityPair(K, utility_estimates.OpportunisticPSAUtility,
                             utility_duration.OpportunisticPSAUtilityDuration)
      p1 == [p EXCEPT !.everPSA = TRUE]
      biopsy ==
        \/ m.kind = "toScreen" /\ d.psa >= parameter.psaThreshold /\ d.complies
        \/ /\ ~(m.kind = "toScreen" /\ d.psa >= parameter.psaThreshold /\ d.complies)
           /\ m.kind = "toBiopsyFollowUpScreen"
           /\ d.psa >= parameter.psaThresholdBiopsyFollowUp /\ d.complies
  IN IF biopsy
     THEN [K |-> scheduleAtKind(K1, clock, clock, "toScreenInitiatedBiopsy"),
           p |-> p1, c |-> c2, rng |-> "Nh"]
     ELSE IF p.organised
     THEN CASE screen = "stockholm3_goteborg" ->
                 [K |-> scheduleAtKind(K1, clock,
                          clock + (IF d.psa < 1 THEN 4 * Year ELSE 2 * Year), "toScreen"),
                  p |-> p1, c |-> c2, rng |-> "Nh"]
            [] screen = "stockholm3_risk_stratified" ->
                 LET c3 == add_costs(c2, p, IF d.psa >= 1 THEN "FormalPSABiomarkerCost"
                                            ELSE "FormalPSACost")
                     K2 == UtilityPair(K1, utility_estimates.FormalPSAUtility,
                                       utility_duration.FormalPSAUtilityDuration)
                 IN [K |-> scheduleAtKind(K2, clock,
                             clock + (IF d.psa < 1 THEN 8 * Year ELSE 4 * Year), "toScreen"),
                     p |-> p1, c |-> c3, rng |-> "Nh"]
            [] OTHER -> [K |-> K1, p |-> p1, c |-> c2, rng |-> "Nh"]
     ELSE IF screen \in {"screenUptake", "stockholm3_goteborg", "stockholm3_risk_stratified"}
               /\ d.rescreens
     THEN [K |-> scheduleAtKind(K1, clock, clock + d.rescreen, "toScreen"),
           p |-> p1, c |-> c2, rng |-> "Nh"]
     ELSE [K |-> K1, p |-> p1, c |-> c2, rng |-> "Nh"]

\* the toScreenInitiatedBiopsy branch of handleMessage
handleBiopsy(K, p, c, d) ==
  LET c1 == add_costs(c, p, "BiopsyCost")
      K1 == UtilityPair(K, utility_estimates.BiopsyUtility,
                        utility_duration.BiopsyUtilityDuration)
      followUp == IF clock < 70 * Year /\ d.complies
                  THEN scheduleAtKind(K1, clock, clock + Year, "toBiopsyFollowUpScreen")
                  ELSE K1
  IN IF p.state = "Healthy"
     THEN [K |-> followUp, p |-> [p EXCEPT !.previousNegativeBiopsy = TRUE],
           c |-> c1, rng |-> "Nh"]
     ELSE IF p.state = "Metastatic" \/ (p.state = "Localised" /\ d.sensitive)
     THEN [K |-> scheduleAtKind(K1, clock, clock, "toScreenDiagnosis"),
           p |-> p, c |-> c1, rng |-> "Nh"]
     ELSE [K |-> followUp, p |-> p, c |-> c1, rng |-> "Nh"]

\* weight*age_cd + (1.0-weight)*age_sd for weight = exp(-c_benefit_value*lead_time)
\* and a positive c_benefit_value: the weight is 1 without lead time, below 1
\* (here 1/2) with a lead time and above 1 (here 2) with a negative one
WeightedAge(lead_time, age_cd, age_sd) ==
  IF lead_time = 0 THEN age_cd
  ELSE IF lead_time > 0 THEN (age_cd + age_sd) \div 2
  ELSE 2 * age_cd - age_sd

\* the toTreatment branch of handleMessage
handleTreatment(K, p, c, d) ==
  LET met == p.state = "Metastatic"
      tx  == IF met THEN p.tx ELSE calculate_treatment(d.u_tx, d.row)
      adt == ~met /\ d.adt
      c1  == IF met THEN add_costs(c, p, "MetastaticCancerCost") ELSE c
      K1  == IF met
             THEN scheduleUtilityChange(K, clock, -utility_estimates.MetastaticCancerUtility)
             ELSE scheduleAtKind(K, clock, clock,
                                 CASE tx = "CM" -> "toCM" [] tx = "RP" -> "toRP"
                                   [] OTHER -> "toRT")
      K2  == IF adt THEN scheduleAtKind(K1, clock, clock, "toADT") ELSE K1
      age_c == IF p.state = "Localised" THEN p.tc + 35 * Year ELSE p.tmc + 35 * Year
      lead_time == age_c - clock
      age_cd == age_c + d.surv[1]
      age_sd == age_c + d.surv[2]
      age_cancer_death == WeightedAge(lead_time, age_cd, age_sd)
      K3  == scheduleAtKind(K2, clock, age_cancer_death, "toCancerDeath")
      dm  == utility_duration.MetastaticCancerUtilityDuration
      dp  == utility_duration.PalliativeUtilityDuration
      K4  == IF p.state = "Localised"
             THEN scheduleUtilityChange(K3,
                    IF age_cancer_death > clock + dm + dp
                    THEN age_cancer_death - dm - dp ELSE clock,
                    -utility_estimates.MetastaticCancerUtility)
             ELSE K3
      K5  == scheduleUtilityChange(K4,
               IF age_cancer_death > clock + dp THEN age_cancer_death - dp ELSE clock,
               -utility_estimates.PalliativeUtility
                 + utility_estimates.MetastaticCancerUtility)
  IN [K |-> K5, p |-> [p EXCEPT !.tx = tx, !.adt = IF adt THEN TRUE ELSE @],
      c |-> c1, rng |-> "Nh"]

\* the toRP, toRT and toCM branches: the cost and the utility changes
handleProcedure(K, p, c, cost, e1, d1, e2, d2) ==
  LET K1 == scheduleUtilityChange(K, clock, -e1)
      K2 == scheduleUtilityChange(K1, clock + d1, e1)
      K3 == scheduleUtilityChange(K2, clock + d1, -e2)
      K4 == scheduleUtilityChange(K3, clock + d2, e2)
  IN [K |-> K4, p |-> p, c |-> add_costs(c, p, cost), rng |-> "Nh"]

\* the toLocalised branch of handleMessage
handleLocalised_WrongKind(K, p, c) ==
  [K |-> scheduleAtKind(
           scheduleAtKind(K, clock, p.tc + 35 * Year, "toLocalised"),
           clock, p.tm + 35 * Year, "toMetastatic"),
   p |-> [p EXCEPT !.state = "Localised"], c |-> c, rng |-> "Nh"]
handleLocalised(K, p, c) ==
  [K |-> scheduleAtKind(
           scheduleAtKind(K, clock, p.tc + 35 * Year, "toClinicalDiagnosis"),
           clock, p.tm + 35 * Year, "toMetastatic"),
   p |-> [p EXCEPT !.state = "Localised"], c |-> c, rng |-> "Nh"]

\* the toMetastatic branch of handleMessage
handleMetastatic_NoRemove(K, p, c) ==
  [K |-> scheduleAtKind(RemoveKind(K, "toUtility"),
                        clock, p.tmc + 35 * Year, "toClinicalDiagnosis"),
   p |-> [p EXCEPT !.state = "Metastatic"], c |-> c, rng |-> "Nh"]
handleMetastatic(K, p, c) ==
  [K |-> scheduleAtKind(
           RemoveKind(RemoveKind(K, "toClinicalDiagnosis"), "toUtility"),
           clock, p.tmc + 35 * Year, "toClinicalDiagnosis"),
   p |-> [p EXCEPT !.state = "Metastatic"], c |-> c, rng |-> "Nh"]

\* the toClinicalDiagnosis branch of handleMessage
handleClinicalDiagnosis_TreatmentFirst(K, p, c) ==
  LET K1 == RemoveKind(RemoveKind(K, "toMetastatic"), "toScreen")
      K2 == scheduleAtKind(K1, clock, clock, "toTreatment")
  IN [K |-> scheduleAll(K2, <<clock, clock, clock>>, "toClinicalDiagnosticBiopsy"),
      p |-> [p EXCEPT !.dx = "ClinicalDiagnosis"], c |-> c, rng |-> "Nh"]
handleClinicalDiagnosis_KeepMetastatic(K, p, c) ==
  LET K1 == RemoveKind(K, "toScreen")
      K2 == scheduleAll(K1, <<clock, clock, clock>>, "toClinicalDiagnosticBiopsy")
  IN [K |-> scheduleAtKind(K2, clock, clock, "toTreatment"),
      p |-> [p EXCEPT !.dx = "ClinicalDiagnosis"], c |-> c, rng |-> "Nh"]
handleClinicalDiagnosis(K, p, c) ==
  LET K1 == RemoveKind(RemoveKind(K, "toMetastatic"), "toScreen")
      K2 == scheduleAll(K1, <<clock, clock, clock>>, "toClinicalDiagnosticBiopsy")
  IN [K |-> scheduleAtKind(K2, clock, clock, "toTreatment"),
      p |-> [p EXCEPT !.dx = "ClinicalDiagnosis"], c |-> c, rng |-> "Nh"]

\* the toScreenDiagnosis branch of handleMessage
handleScreenDiagnosis_KeepClinical(K, p, c) ==
  LET K1 == RemoveKind(RemoveKind(K, "toMetastatic"), "toScreen")
  IN [K |-> scheduleAtKind(K1, clock, clock, "toTreatment"),
      p |-> [p EXCEPT !.dx = "ScreenDiagnosis"], c |-> c, rng |-> "Nh"]
handleScreenDiagnosis(K, p, c) ==
  LET K1 == RemoveKind(RemoveKind(RemoveKind(K, "toMetastatic"),
                                  "toClinicalDiagnosis"), "toScreen")
  IN [K |-> scheduleAtKind(K1, clock, clock, "toTreatment"),
      p |-> [p EXCEPT !.dx = "ScreenDiagnosis"], c |-> c, rng |-> "Nh"]

\* FhcrcPerson::handleMessage(msg) after report.add and rngNh->set(): the switch
handleSwitch(K, p, c, m, screen, d) ==
  CASE m.kind \in {"toCancerDeath", "toOtherDeath"} ->
         [K |-> stop_simulation(K), p |-> p, c |-> add_costs(c, p, "DeathCost"),
          rng |-> "Nh"]
    [] m.kind = "toLocalised" -> handleLocalised(K, p, c)
    [] m.kind = "toMetastatic" -> handleMetastatic(K, p, c)
    [] m.kind = "toClinicalDiagnosis" -> handleClinicalDiagnosis(K, p, c)
    [] m.kind = "toOrganised" ->
         [K |-> scheduleAtKind(RemoveKind(K, "toScreen"), clock, clock, "toScreen"),
          p |-> [p EXCEPT !.organised = TRUE], c |-> c, rng |-> "Nh"]
    [] m.kind \in {"toScreen", "toBiopsyFollowUpScreen"} ->
         handleScreen(K, p, c, m, screen, d)
    [] m.kind = "toScreenDiagnosis" -> handleScreenDiagnosis(K, p, c)
    [] m.kind = "toClinicalDiagnosticBiopsy" ->
         [K |-> UtilityPair(K, utility_estimates.BiopsyUtility,
                            utility_duration.BiopsyUtilityDuration),
          p |-> p, c |-> add_costs(c, p, "BiopsyCost"), rng |-> "Nh"]
    [] m.kind = "toScreenInitiatedBiopsy" -> handleBiopsy(K, p, c, d)
    [] m.kind = "toTreatment" -> handleTreatment(K, p, c, d)
    [] m.kind = "toRP" ->
         handleProcedure(K, p, c, "ProstatectomyCost",
                         utility_estimates.ProstatectomyUtilityPart1,
                         utility_duration.ProstatectomyUtilityDurationPart1,
                         utility_estimates.ProstatectomyUtilityPart2,
                         utility_duration.ProstatectomyUtilityDurationPart2)
    [] m.kind = "toRT" ->
         handleProcedure(K, p, c, "RadiationTherapyCost",
                         utility_estimates.RadiationTherapyUtilityPart1,
                         utility_duration.RadiationTherapyUtilityDurationPart1,
                         utility_estimates.RadiationTherapyUtilityPart2,
                         utility_duration.RadiationTherapyUtilityDurationPart2)
    [] m.kind = "toCM" ->
         [K |-> UtilityPair(K, utility_estimates.ActiveSurveillanceUtility,
                            utility_duration.ActiveSurveillanceUtilityDuration),
          p |-> p, c |-> add_costs(c, p, "ActiveSurveillanceCost"), rng |-> "Nh"]
    [] m.kind = "toADT" -> [K |-> K, p |-> p, c |-> c, rng |-> "Nh"]
    [] m.kind = "toUtility" ->
         [K |-> K, p |-> [p EXCEPT !.utility = m.payload], c |-> c, rng |-> "Nh"]
    [] m.kind = "toUtilityChange" ->
         [K |-> K, p |-> [p EXCEPT !.utility = @ + m.payload], c |-> c, rng |-> "Nh"]
    [] OTHER -> [K |-> K, p |-> p, c |-> c, rng |-> "Nh"]

\* bounds(x, a, b)
bounds(x, a, b) == IF x < a THEN a ELSE IF x > b THEN b ELSE x

\* one numeric component of the key of a table lookup: the value the handler
\* has (raw), the value it passes (key) and the range it calls bounds() with,
\* <<>> where the value is passed as it is
Component(table, name, raw, range) ==
  [table |-> table, component |-> name, raw |-> raw, range |-> range,
   key |-> IF range = <<>> THEN raw ELSE bounds(raw, range[1], range[2])]

\* calculate_treatment(u, age, year): the key of prtxCM(key) and prtxRP(key)
prtx_key(age, year) ==
  {Component("prtx", "Age", age, <<50 * Year, 79 * Year>>),
   Component("prtx", "DxY", year, <<1973 * Year, 2004 * Year>>)}

\* the table lookups of FhcrcPerson::handleMessage(msg) with the draws d, for
\* age = now() and year = age + cohort: tableBiopsyCompliance and the
\* rescreening tables in toScreen and toBiopsyFollowUpScreen; prtx and pradt
\* in toTreatment
TableLookups(p, m, screen, d) ==
  LET age == clock
      year == clock + p.cohort * Year
      biopsy ==
        \/ m.kind = "toScreen" /\ d.psa >= parameter.psaThreshold /\ d.complies
        \/ /\ m.kind = "toBiopsyFollowUpScreen"
           /\ d.psa >= parameter.psaThresholdBiopsyFollowUp /\ d.complies
      age_c == IF p.state = "Localised" THEN p.tc + 35 * Year ELSE p.tmc + 35 * Year
      lead_time == age_c - clock
  IN CASE m.kind \in {"toScreen", "toBiopsyFollowUpScreen"} ->
            {Component("biopsyCompliance", "psa", d.psa, <<4, 7>>),
             Component("biopsyCompliance", "age", age, <<55 * Year, 75 * Year>>)}
            \cup
            (IF /\ ~biopsy /\ ~p.organised
                /\ screen \in {"screenUptake", "stockholm3_goteborg",
                               "stockholm3_risk_stratified"}
             THEN {Component("rescreening", "age5", clock, <<30 * Year, 90 * Year>>),
                   Component("rescreening", "total", d.psa, <<>>)}
             ELSE {})
       [] m.kind = "toTreatment" ->
            (IF p.state = "Metastatic" THEN {}
             ELSE prtx_key(age, year)
                  \cup {Component("pradt", "Age", clock, <<50 * Year, 79 * Year>>),
                        Component("pradt", "DxY", year, <<1973 * Year, 2004 * Year>>)})
            \cup prtx_key(age_c, year + lead_time)
       [] OTHER -> {}

\* FhcrcPerson::handleMessage(msg), with the draws d: the PSA draw, the
\* record for the report, and the switch on the kind.  The report gets the
\* interval as EventReport::add(state, event, lhs, rhs) takes it; the fifth
\* argument of the call, the utility, is left out.
FhcrcPerson_handleMessage(K, p, r, c, m, screen, d) ==
  LET r1 == add(r, <<p.state, p.ext_grade, p.dx, d.psa >= 3, p.cohort>>,
                m.kind, p.previousEventTime, clock)
  IN handleSwitch(K, p, c, m, screen, d)
       @@ [r |-> r1, d |-> d, l |-> TableLookups(p, m, screen, d)]

\* ------------------------------------------------------------- actions
\* what one init() or handler call leaves in the kernel
Commit(K) ==
  /\ queue' = K.queue
  /\ nextSeq' = K.nextSeq
  /\ running' = K.running
  /\ error' = K.error

\* the state after callIllnessDeath has set up its report
InitIllness ==
  /\ driver = "illness"
  /\ n \in 1..MaxN
  /\ parms = [screen |-> "noScreening", cohort |-> <<>>]
  /\ person = SimplePerson(0)
  /\ report = setPartition(EventReport_clear, ages)
  /\ rng = "none"

\* the state of callCalibrationSimulation before its loop: the report holds
\* an empty TimeAtRisk, the one person object has been constructed and the
\* stream NH is set
InitCalib ==
  /\ driver = "calib"
  /\ n \in 1..MaxN
  /\ parms = [screen |-> "noScreening", cohort |-> <<>>]
  /\ person = CalibPerson(0)
  /\ report = ("TimeAtRisk" :> <<>>)
  /\ rng = "NH"

\* the state of callFhcrc before its main loop: the streams are made and
\* rngNh is set, the reports are cleared and given the partition
InitFhcrc ==
  /\ driver = "fhcrc"
  /\ parms \in FhcrcInputs
  /\ n = Len(parms.cohort)
  /\ person = FhcrcPerson(0, 1950)
  /\ report = setPartition(EventReport_clear, ages)
  /\ rng = "Nh"

Init ==
  /\ i = 0
  /\ pc = "create"
  /\ clock = 0
  /\ queue = {}
  /\ running = FALSE
  /\ current_process = NoProcess
  /\ nextSeq = 0
  /\ error = "none"
  /\ msg = NoMsg
  /\ costs = <<>>
  /\ hist = NoHist
  /\ (InitIllness \/ InitCalib \/ InitFhcrc)

\* Sim::create_process(p): the process is attached and its init() has run
create_process(res) ==
  /\ pc = "create" /\ i < n
  /\ current_process = NoProcess
  /\ Commit(res.K)
  /\ person' = res.p
  /\ rng' = res.rng
  /\ current_process' = driver
  /\ pc' = "run"
  /\ hist' = [NoHist EXCEPT !.refused = res.K.refused]
  /\ UNCHANGED <<inputs, i, clock, msg, report, costs>>

\* person = SimplePerson(i); Sim::create_process(&person)
IllnessCreate ==
  /\ driver = "illness"
  /\ \E d \in OtherDeathDraws, u \in BOOLEAN, c \in CancerDraws :
       create_process(SimplePerson_init(Kernel, SimplePerson(i), d, u, c)
                        @@ [rng |-> rng])

\* rng["NH"]->nextSubstream(); Sim::create_process(&person): the one person
\* object of the driver is attached again
CalibCreate ==
  /\ driver = "calib"
  /\ \E u \in BOOLEAN, e \in PrecursorDraws, g \in GumbelDraws :
       create_process(CalibPerson_init(Kernel, person, u, e, g) @@ [rng |-> "NH"])

\* person = FhcrcPerson(i+firstId, cohort[i]); Sim::create_process(&person)
FhcrcCreate ==
  /\ driver = "fhcrc" /\ i < n
  /\ LET uptake == parms.screen \in
                     {"screenUptake", "stockholm3_goteborg", "stockholm3_risk_stratified"}
         B(on) == IF on THEN BOOLEAN ELSE {FALSE}
     IN \E t0 \in T0Draws, dm \in TmDraws, dc \in TcDraws, dmc \in TmcDraws,
           aoc \in AocDraws, grade \in GradeDraws, grade7 \in Grade7Draws,
           complies \in ComplianceDraws,
           random \in RandomScreenDraws, first \in FirstScreenDraws,
           mixture \in B(uptake), takesUp \in B(uptake),
           participates \in B(uptake /\ parms.screen # "screenUptake"),
           organised \in OrganisedDraws :
          create_process(FhcrcPerson_init(Kernel, FhcrcPerson(i, parms.cohort[i + 1]),
            parms.screen,
            [t0 |-> t0, dm |-> dm, dc |-> dc, dmc |-> dmc, aoc |-> aoc,
             grade |-> grade, grade7 |-> grade7, complies |-> complies,
             random |-> random, first |-> first, mixture |-> mixture,
             uptake |-> takesUp, participates |-> participates,
             organised |-> organised]))

\* Sim::run_simulation(), entry
RunSimulation ==
  /\ pc = "run"
  /\ running' = TRUE
  /\ pc' = "loop"
  /\ UNCHANGED <<inputs, i, clock, queue, current_process, nextSeq, error,
                 msg, person, report, costs, rng, hist>>

\* the run loop pops the first entry and advances the clock to its time
RunPop ==
  /\ pc = "loop" /\ msg = NoMsg /\ error = "none"
  /\ running /\ queue # {}
  /\ LET e == First(queue)
     IN /\ queue' = queue \ {e}
        /\ clock' = e.time
        /\ msg' = e
  /\ UNCHANGED <<inputs, i, pc, running, current_process, nextSeq, error,
                 person, report, costs, rng, hist>>

\* the run loop ends: stop_simulation() was called, the queue is empty, or
\* the run failed
RunExit ==
  /\ pc = "loop" /\ msg = NoMsg
  /\ error # "none" \/ ~running \/ queue = {}
  /\ running' = FALSE
  /\ pc' = IF error # "none" THEN "aborted" ELSE "clear"
  /\ UNCHANGED <<inputs, i, clock, queue, current_process, nextSeq, error,
                 msg, person, report, costs, rng, hist>>

\* the history after the handler of message m has run
HistAfter(K, m, r) ==
  [lastMsg |-> m, removedSeqs |-> K.removedSeqs, removedKinds |-> K.removedKinds,
   before |-> queue,
   deaths |-> hist.deaths + (IF m.kind \in DeathKinds THEN 1 ELSE 0),
   ptAdded |-> IF "pt" \in DOMAIN r
               THEN hist.ptAdded + MapGrowth(r.pt, report.pt)
               ELSE 0,
   refused |-> K.refused,
   trace |-> Append(hist.trace, m),
   draws |-> <<>>, lookups |-> {}]

\* cProcess::process_event(e): handleMessage(msg); previousEventTime = Sim::clock()
\* (a failed scheduleAt leaves the handler before the assignment)
process_event_NoUpdate(res) ==
  /\ pc = "loop" /\ msg # NoMsg
  /\ Commit(res.K)
  /\ person' = res.p
  /\ report' = res.r
  /\ costs' = res.c
  /\ rng' = res.rng
  /\ msg' = NoMsg
  /\ hist' = [HistAfter(res.K, msg, res.r) EXCEPT
                !.draws = IF msg.kind = "toTreatment" THEN res.d ELSE <<>>,
                !.lookups = IF driver = "fhcrc" THEN res.l ELSE {}]
  /\ UNCHANGED <<inputs, i, pc, clock, current_process>>
process_event_SendingTime(res) ==
  /\ pc = "loop" /\ msg # NoMsg
  /\ Commit(res.K)
  /\ person' = IF res.K.error = "none"
               THEN [res.p EXCEPT !.previousEventTime = msg.sendingTime]
               ELSE res.p
  /\ report' = res.r
  /\ costs' = res.c
  /\ rng' = res.rng
  /\ msg' = NoMsg
  /\ hist' = [HistAfter(res.K, msg, res.r) EXCEPT
                !.draws = IF msg.kind = "toTreatment" THEN res.d ELSE <<>>,
                !.lookups = IF driver = "fhcrc" THEN res.l ELSE {}]
  /\ UNCHANGED <<inputs, i, pc, clock, current_process>>
process_event(res) ==
  /\ pc = "loop" /\ msg # NoMsg
  /\ Commit(res.K)
  /\ person' = IF res.K.error = "none"
               THEN [res.p EXCEPT !.previousEventTime = clock]
               ELSE res.p
  /\ report' = res.r
  /\ costs' = res.c
  /\ rng' = res.rng
  /\ msg' = NoMsg
  /\ hist' = [HistAfter(res.K, msg, res.r) EXCEPT
                !.draws = IF msg.kind = "toTreatment" THEN res.d ELSE <<>>,
                !.lookups = IF driver = "fhcrc" THEN res.l ELSE {}]
  /\ UNCHANGED <<inputs, i, pc, clock, current_process>>

IllnessHandle ==
  /\ driver = "illness" /\ msg # NoMsg
  /\ \E u \in BOOLEAN, w \in CancerDeathDraws :
       process_event(SimplePerson_handleMessage(Kernel, person, report, msg, u, w)
                       @@ [c |-> costs, rng |-> rng])

CalibHandle ==
  /\ driver = "calib" /\ msg # NoMsg
  /\ \E w \in DwellDraws :
       process_event(CalibPerson_handleMessage(Kernel, person, report, msg, w)
                       @@ [c |-> costs, rng |-> rng])

\* the draws a handler of the cancer model does not make
NoDraws == [psa |-> 0, complies |-> FALSE, rescreens |-> FALSE, rescreen |-> 0,
            sensitive |-> FALSE, u_tx |-> 0, row |-> [CM |-> 0, RP |-> 0],
            adt |-> FALSE, surv |-> <<0, 0>>]

ScreenKinds == {"toScreen", "toBiopsyFollowUpScreen"}

\* the handlers of the cancer model that draw the PSA value only
FhcrcHandle ==
  /\ driver = "fhcrc" /\ msg # NoMsg
  /\ msg.kind \notin ScreenKinds \cup {"toScreenInitiatedBiopsy", "toTreatment"}
  /\ \E psa \in PsaDraws :
       process_event(FhcrcPerson_handleMessage(Kernel, person, report, costs, msg,
         parms.screen, [NoDraws EXCEPT !.psa = psa]))

FhcrcHandleScreen ==
  /\ driver = "fhcrc" /\ msg # NoMsg
  /\ msg.kind \in ScreenKinds
  /\ \E psa \in PsaDraws, complies \in ComplianceDraws, rescreens \in BOOLEAN,
        rescreen \in RescreenDraws :
       process_event(FhcrcPerson_handleMessage(Kernel, person, report, costs, msg,
         parms.screen, [NoDraws EXCEPT !.psa = psa, !.complies = complies,
                                       !.rescreens = rescreens, !.rescreen = rescreen]))

FhcrcHandleBiopsy ==
  /\ driver = "fhcrc" /\ msg # NoMsg
  /\ msg.kind = "toScreenInitiatedBiopsy"
  /\ \E psa \in PsaDraws, complies \in ComplianceDraws, sensitive \in BOOLEAN :
       process_event(FhcrcPerson_handleMessage(Kernel, person, report, costs, msg,
         parms.screen, [NoDraws EXCEPT !.psa = psa, !.complies = complies,
                                       !.sensitive = sensitive]))

FhcrcHandleTreatment ==
  /\ driver = "fhcrc" /\ msg # NoMsg
  /\ msg.kind = "toTreatment"
  /\ \E psa \in PsaDraws, row \in PrtxRows, t \in TreatmentDraws :
       /\ row.CM + row.RP <= 100 \/ t.u_tx >= row.CM
       /\ process_event(FhcrcPerson_handleMessage(Kernel, person, report, costs, msg,
         parms.screen, [NoDraws EXCEPT !.psa = psa, !.u_tx = t.u_tx, !.row = row,
                                       !.adt = t.adt, !.surv = t.surv]))

\* Sim::clear()
clear ==
  /\ queue' = {}
  /\ clock' = 0
  /\ running' = FALSE
  /\ current_process' = NoProcess
  /\ nextSeq' = 0

\* the end of one pass of the driver's loop: Sim::clear(); ++i
LoopClear_NoClear ==
  /\ pc = "clear"
  /\ i' = i + 1
  /\ pc' = IF i + 1 < n THEN "create" ELSE "done"
  /\ UNCHANGED <<inputs, error, msg, person, report, costs, rng, hist,
                 queue, clock, running, current_process, nextSeq>>
LoopClear ==
  /\ pc = "clear"
  /\ clear
  /\ i' = i + 1
  /\ pc' = IF i + 1 < n THEN "create" ELSE "done"
  /\ UNCHANGED <<inputs, error, msg, person, report, costs, rng, hist>>

Next ==
  \/ IllnessCreate
  \/ CalibCreate
  \/ FhcrcCreate
  \/ RunSimulation
  \/ RunPop
  \/ RunExit
  \/ IllnessHandle
  \/ CalibHandle
  \/ FhcrcHandle
  \/ FhcrcHandleScreen
  \/ FhcrcHandleBiopsy
  \/ FhcrcHandleTreatment
  \/ LoopClear

Spec == Init /\ [][Next]_vars

\* ------------------------------------------------ EventReport on its own
\* the calls of one EventReport object: clear(), setPartition(p) and
\* add(state, event, lhs, rhs) with lhs <= rhs and lhs within the partition.
\* n is the number of add calls made, i the number made so far; msg is the
\* call made last and hist.before the object as that call found it.

\* the add calls of one run
MaxAdds == 2

Partitions == {<<0, 2, 3>>, <<1, 3>>}
ReportStates == {"Healthy", "Cancer"}
ReportEvents == {"toCancer", "toOtherDeath"}

\* values an out-of-bounds read of the partition's storage can give
GarbageKeys == {-1, 2}

\* EventReport::clear() on an object in use: _max keeps its value
EventReport_clear_object(r) ==
  [r EXCEPT !.partition = <<>>, !.pt = <<>>, !.events = <<>>, !.prev = <<>>]

\* the outcomes of EventReport::add.  With lhs == rhs == *begin() the loop
\* is not entered and *(it-1) reads before begin(), which is undefined: the
\* key of the event is an indeterminate value, or the call faults
add_outcomes(r, state, event, lhs, rhs) ==
  LET after == add_body(r, state, lhs, rhs)
  IN IF rhs < r.max /\ after.it = 1
     THEN {[fault |-> FALSE,
            rep |-> [after.rep EXCEPT
                       !.events = MapAdd(@, <<state, event, g>>, 1)]] :
             g \in GarbageKeys}
          \cup {[fault |-> TRUE, rep |-> after.rep]}
     ELSE {[fault |-> FALSE, rep |-> add(r, state, event, lhs, rhs)]}

InitReport ==
  /\ driver = "report"
  /\ n = MaxAdds
  /\ parms = <<>>
  /\ i = 0
  /\ pc = "cleared"
  /\ clock = 0
  /\ queue = {}
  /\ running = FALSE
  /\ current_process = NoProcess
  /\ nextSeq = 0
  /\ error = "none"
  /\ msg = NoMsg
  /\ person = NoProcess
  /\ report = EventReport_clear
  /\ costs = <<>>
  /\ rng = "none"
  /\ hist = NoHist

ReportFrame ==
  UNCHANGED <<inputs, clock, queue, running, current_process, nextSeq,
              error, person, costs, rng>>

ReportSetPartition ==
  /\ driver = "report" /\ pc \in {"cleared", "set"}
  /\ \E p \in Partitions :
       /\ report' = setPartition(report, p)
       /\ msg' = [kind |-> "setPartition", partition |-> p]
  /\ hist' = [NoHist EXCEPT !.before = report]
  /\ pc' = IF pc = "cleared" THEN "set" ELSE "set2"
  /\ i' = i
  /\ ReportFrame

ReportAdd ==
  /\ driver = "report" /\ pc \in {"set", "set2", "added"} /\ i < n
  /\ \E state \in ReportStates, event \in ReportEvents,
        lhs \in report.partition[1]..report.max :
       \E rhs \in lhs..(report.max + 1) :
         \E o \in add_outcomes(report, state, event, lhs, rhs) :
           /\ report' = o.rep
           /\ pc' = IF o.fault THEN "fault" ELSE "added"
           /\ msg' = [kind |-> "add", state |-> state, event |-> event,
                      lhs |-> lhs, rhs |-> rhs]
  /\ hist' = [NoHist EXCEPT !.before = report]
  /\ i' = i + 1
  /\ ReportFrame

ReportClear ==
  /\ driver = "report" /\ pc = "added"
  /\ report' = EventReport_clear_object(report)
  /\ msg' = [kind |-> "clear"]
  /\ hist' = [NoHist EXCEPT !.before = report]
  /\ pc' = "cleared"
  /\ i' = i
  /\ ReportFrame

NextReport ==
  \/ ReportSetPartition
  \/ ReportAdd
  \/ ReportClear

SpecReport == InitReport /\ [][NextReport]_vars

\* ---------------------------------------- the survival lookup on its own
\* calculate_survival's choice of the H_local row, for the age keys of the
\* survival_local table and the age at diagnosis that parms holds; person
\* is the row the lookup gives.

\* the ages at diagnosis reach this many years below 50 and above 80
AgeSpan == 6

\* sets of values of the Age column of survival_local
AgeKeySets ==
  {{50 * Year, 60 * Year, 70 * Year, 80 * Year},
   {50 * Year, 55 * Year, 65 * Year, 75 * Year},
   {45 * Year, 65 * Year, 85 * Year},
   {55 * Year, 65 * Year, 75 * Year}}
AgesAtDiagnosis == ((50 - AgeSpan) * Year)..((80 + AgeSpan) * Year)

\* ages an out-of-bounds read of the set can give
GarbageAges == {0, 65 * Year}


\* the elements of set<double, greater<double> >, in the order of the set
RECURSIVE Descending(_)
Descending(S) ==
  IF S = {} THEN <<>>
  ELSE LET top == CHOOSE x \in S : \A y \in S : y <= x
       IN <<top>> \o Descending(S \ {top})

\* H_local_age_set.lower_bound(x): the first place of the set, in its own
\* order, whose element does not come before x, and Len + 1 for end().
\* With greater<double>, e comes before x when e > x
RECURSIVE set_lower_bound_Less(_, _, _)
set_lower_bound_Less(seq, x, j) ==
  IF j > Len(seq) \/ ~(seq[Len(seq) + 1 - j] < x) THEN j
  ELSE set_lower_bound_Less(seq, x, j + 1)
RECURSIVE set_lower_bound(_, _, _)
set_lower_bound(seq, x, j) ==
  IF j > Len(seq) \/ ~(seq[j] > x) THEN j
  ELSE set_lower_bound(seq, x, j + 1)

\* the age key of the row calculate_survival looks up for a localised
\* diagnosis: *H_local_age_set.lower_bound(bounds(age_diag, 50, 80)).  The
\* dereference of end() is undefined: an indeterminate key, or a fault
H_local_rows(age_set, age_diag) ==
  LET seq == Descending(age_set)
      it  == set_lower_bound(seq, bounds(age_diag, 50 * Year, 80 * Year), 1)
  IN IF it <= Len(seq) THEN {[fault |-> FALSE, age |-> seq[it]]}
     ELSE {[fault |-> FALSE, age |-> g] : g \in GarbageAges}
            \cup {[fault |-> TRUE, age |-> 0]}

InitSurvival ==
  /\ driver = "survival"
  /\ n = 1
  /\ parms \in [age_set : AgeKeySets, age_diag : AgesAtDiagnosis,
                localised : BOOLEAN]
  /\ i = 0
  /\ pc = "call"
  /\ clock = 0
  /\ queue = {}
  /\ running = FALSE
  /\ current_process = NoProcess
  /\ nextSeq = 0
  /\ error = "none"
  /\ msg = NoMsg
  /\ person = NoProcess
  /\ report = EventReport_clear
  /\ costs = <<>>
  /\ rng = "none"
  /\ hist = NoHist

\* calculate_survival(u, age_diag, age_c, tx), as far as the row it reads
calculate_survival ==
  /\ driver = "survival" /\ pc = "call"
  /\ IF parms.localised
     THEN \E row \in H_local_rows(parms.age_set, parms.age_diag) :
            /\ person' = [table |-> "H_local", age |-> row.age]
            /\ pc' = IF row.fault THEN "fault" ELSE "returned"
     ELSE /\ person' = [table |-> "H_dist", age |-> 0]
          /\ pc' = "returned"
  /\ i' = i + 1
  /\ UNCHANGED <<inputs, clock, queue, running, current_process, nextSeq,
                 error, msg, report, costs, rng, hist>>

NextSurvival == calculate_survival

SpecSurvival == InitSurvival /\ [][NextSurvival]_vars

\* ------------------------------------------------ the random streams
\* rng holds the streams and the current stream: each stream is at a place
\* pos of its substream sub, and the host's own generator "R" is current
\* until a stream is set().  The value a stream gives at a place is named
\* by the stream and the place.  n is the number of draws and substream
\* moves made, i the number made so far; hist.trace[s] is the sequence of
\* values drawn from calls on stream s, hist.before[s] the calls made on s,
\* msg the call made last and hist.lastMsg the call before it.

\* the draws and substream moves of one run
MaxRngOps == 4

Streams == {"A", "B"}
Host == "R"

NewStream == [sub |-> 0, pos |-> 0]

\* Rng::set(): this stream becomes the current stream
Rng_set(r, s) == [r EXCEPT !.current = s]

\* Rng::nextSubstream(): stream s moves to the start of its next substream
Rng_nextSubstream(r, s) ==
  [r EXCEPT !.streams[s] = [sub |-> @.sub + 1, pos |-> 0]]

\* a draw of the host's numeric library: the next value of the current
\* stream, which advances
unif_rand(r) ==
  LET c == r.current
  IN [value |-> <<c, r.streams[c].sub, r.streams[c].pos>>,
      rng   |-> [r EXCEPT !.streams[c].pos = @ + 1]]

\* WithRNG(rng, expr): (rng->set(), expr), for a draw as expr
WithRNG_NoSet(r, s) == unif_rand(r)
WithRNG(r, s) == unif_rand(Rng_set(r, s))

InitRng ==
  /\ driver = "rng"
  /\ n = MaxRngOps
  /\ parms = <<>>
  /\ i = 0
  /\ pc = "calls"
  /\ clock = 0
  /\ queue = {}
  /\ running = FALSE
  /\ current_process = NoProcess
  /\ nextSeq = 0
  /\ error = "none"
  /\ msg = NoMsg
  /\ person = NoProcess
  /\ report = EventReport_clear
  /\ costs = <<>>
  /\ rng = [current |-> Host,
            streams |-> [s \in Streams \cup {Host} |-> NewStream]]
  /\ hist = [NoHist EXCEPT
               !.trace = [s \in Streams \cup {Host} |-> <<>>],
               !.before = [s \in Streams \cup {Host} |-> <<>>]]

RngFrame ==
  UNCHANGED <<inputs, pc, clock, queue, running, current_process, nextSeq,
              error, person, report, costs>>

\* rng->set()
RngSet ==
  /\ driver = "rng"
  /\ \E s \in Streams :
       /\ rng' = Rng_set(rng, s)
       /\ msg' = [kind |-> "set", stream |-> s]
  /\ hist' = [hist EXCEPT !.lastMsg = msg]
  /\ i' = i
  /\ RngFrame

\* a draw without a set() before it: from the stream that is current
RngDraw ==
  /\ driver = "rng" /\ i < n
  /\ LET d == unif_rand(rng)
     IN /\ rng' = d.rng
        /\ msg' = [kind |-> "draw", stream |-> rng.current]
        /\ hist' = [hist EXCEPT
                      !.lastMsg = msg,
                      !.trace[rng.current] = Append(@, d.value),
                      !.before[rng.current] = Append(@, "draw")]
  /\ i' = i + 1
  /\ RngFrame

\* WithRNG(s, draw)
RngWith ==
  /\ driver = "rng" /\ i < n
  /\ \E s \in Streams :
       LET d == WithRNG(rng, s)
       IN /\ rng' = d.rng
          /\ msg' = [kind |-> "WithRNG", stream |-> s]
          /\ hist' = [hist EXCEPT
                        !.lastMsg = msg,
                        !.trace[s] = Append(@, d.value),
                        !.before[s] = Append(@, "draw")]
  /\ i' = i + 1
  /\ RngFrame

\* rng->nextSubstream()
RngNextSubstream ==
  /\ driver = "rng" /\ i < n
  /\ \E s \in Streams :
       /\ rng' = Rng_nextSubstream(rng, s)
       /\ msg' = [kind |-> "nextSubstream", stream |-> s]
       /\ hist' = [hist EXCEPT !.lastMsg = msg,
                               !.before[s] = Append(@, "next")]
  /\ i' = i + 1
  /\ RngFrame

NextRng ==
  \/ RngSet
  \/ RngDraw
  \/ RngWith
  \/ RngNextSubstream

SpecRng == InitRng /\ [][NextRng]_vars

\* --------------------------------------------- runs from a package seed
\* A draw of the host's numeric library is a fixed function of the package
\* seed, of the stream, of its substream and of the position in it.  The
\* driver is run on two individuals from a package seed; then the package
\* seed is set again and the driver is run again, on the same two individuals
\* or on the second one alone.  parms.saved holds the messages dispatched for
\* each individual of the first run.
PackageSeeds == 0..3

FhcrcStreams == {"Nh", "Other", "Screen", "Treatment"}
CalibStreams == {"NH"}

StreamIndex(c) ==
  CASE c = "Nh" -> 0 [] c = "NH" -> 0 [] c = "Other" -> 1 [] c = "Screen" -> 2
    [] c = "Treatment" -> 3 [] OTHER -> 4

\* the elements of a set of draws, in a fixed order
RECURSIVE SeqOf(_)
SeqOf(S) ==
  IF S = {} THEN <<>>
  ELSE LET x == CHOOSE y \in S : TRUE IN <<x>> \o SeqOf(S \ {x})

\* the variate that the generator state v = <<stream, substream, position>>
\* gives under the package seed: Mix scatters the generator states over the
\* draws
Mix(x) == (x * x) \div 7 + x \div 3
Pick(S, seed, v) ==
  SeqOf(S)[(Mix(31 * seed + 7 * StreamIndex(v[1]) + 13 * v[2] + 17 * v[3] + 3)
              % Cardinality(S)) + 1]

\* one variate from the current stream
Draw(S, r) ==
  LET u == unif_rand(r) IN [value |-> Pick(S, parms.seed, u.value), rng |-> u.rng]

\* k variates from the current stream that the model gives no name
RECURSIVE Skip(_, _)
Skip(r, k) == IF k = 0 THEN r ELSE Skip(unif_rand(r).rng, k - 1)

\* RngStream_SetPackageSeed(seed) and new Rng() for each stream of the
\* driver: every stream is at the start of its first substream
SeedStreams_Continue(r, names) == r
SeedStreams(r, names) ==
  [current |-> Host, streams |-> [s \in names \cup {Host} |-> NewStream]]

\* every stream of the driver moves to its next substream
RECURSIVE AdvanceAll(_, _)
AdvanceAll(r, names) ==
  IF names = {} THEN r
  ELSE LET s == CHOOSE x \in names : TRUE
       IN AdvanceAll(Rng_nextSubstream(r, s), names \ {s})

\* the messages dispatched, as kinds and timestamps in order
Dispatched(trace) == [j \in 1..Len(trace) |-> <<trace[j].kind, trace[j].timestamp>>]

DriverStreams == IF driver = "calib" THEN CalibStreams ELSE FhcrcStreams

\* the state of a driver before its loop: callCalibrationSimulation has set
\* the package seed, made the stream NH and set it; callFhcrc has made its
\* four streams from the package seed the host has set, and set rngNh
SeedDriverStart(r, d) ==
  Rng_set(SeedStreams(r, IF d = "calib" THEN CalibStreams ELSE FhcrcStreams),
          IF d = "calib" THEN "NH" ELSE "Nh")

SeedInputs ==
  {[screen |-> s, cohort |-> c] :
     s \in {"noScreening", "randomScreen50to70", "screenUptake", "stockholm3_goteborg"},
     c \in {<<1962, 1962>>, <<1950, 1962>>}}

InitSeed ==
  /\ driver \in {"calib", "fhcrc"}
  /\ n = 2
  /\ \E seed \in PackageSeeds, in \in SeedInputs :
       /\ driver = "calib" => in = [screen |-> "noScreening", cohort |-> <<1962, 1962>>]
       /\ parms = in @@ [seed |-> seed, run |-> "first", saved |-> <<>>]
  /\ i = 0
  /\ pc = "create"
  /\ clock = 0
  /\ queue = {}
  /\ running = FALSE
  /\ current_process = NoProcess
  /\ nextSeq = 0
  /\ error = "none"
  /\ msg = NoMsg
  /\ person = IF driver = "calib" THEN CalibPerson(0) ELSE FhcrcPerson(0, 1950)
  /\ report = IF driver = "calib" THEN ("TimeAtRisk" :> <<>>)
              ELSE setPartition(EventReport_clear, ages)
  /\ costs = <<>>
  /\ rng = SeedDriverStart([current |-> Host,
                           streams |-> [s \in DriverStreams \cup {Host} |-> NewStream]],
                          driver)
  /\ hist = NoHist

\* CalibPerson::init() with its draws taken from the streams: rng["NH"]->set(),
\* then runif (diseasepot), rnorm and rexp (toPrecursor), runif (toDeath)
CalibSeedInit(r) ==
  LET u == Draw(BOOLEAN, Rng_set(r, "NH"))
      e == Draw(PrecursorDraws, Skip(u.rng, 1))
      g == Draw(GumbelDraws, e.rng)
  IN CalibPerson_init(Kernel, person, u.value, e.value, g.value) @@ [rng |-> g.rng]

\* rng["NH"]->nextSubstream(); Sim::create_process(&person)
CalibSeedCreate ==
  /\ driver = "calib"
  /\ create_process(CalibSeedInit(Rng_nextSubstream(rng, "NH")))

\* FhcrcPerson::init() with its draws taken from the streams, in the order
\* of the code: from rngNh t0, grade, beta0, beta1, beta2, tm, tc, tmc, aoc
\* and the refinement of the grade; from rngScreen the compliance, the draws
\* of the policy, the participation and the time of toOrganised
FhcrcSeedInit(r, id, cohort) ==
  LET screen == parms.screen
      uptake == screen \in {"screenUptake", "stockholm3_goteborg",
                            "stockholm3_risk_stratified"}
      t0 == Draw(T0Draws, Rng_set(r, "Nh"))
      grade == Draw(GradeDraws, t0.rng)
      dm == Draw(TmDraws, Skip(grade.rng, 3))
      dc == Draw(TcDraws, dm.rng)
      dmc == Draw(TmcDraws, dc.rng)
      aoc == Draw(AocDraws, dmc.rng)
      grade7 == IF grade.value = "Gleason_le_7" THEN Draw(Grade7Draws, aoc.rng)
                ELSE [value |-> FALSE, rng |-> aoc.rng]
      complies == Draw(ComplianceDraws, Rng_set(grade7.rng, "Screen"))
      random == IF complies.value /\ screen = "randomScreen50to70"
                THEN Draw(RandomScreenDraws, complies.rng)
                ELSE [value |-> 0, rng |-> complies.rng]
      takesUp == IF complies.value /\ uptake THEN Draw(BOOLEAN, random.rng)
                 ELSE [value |-> FALSE, rng |-> random.rng]
      mixture == IF complies.value /\ uptake /\ cohort <= 1960 /\ cohort >= 1945
                 THEN Draw(BOOLEAN, takesUp.rng)
                 ELSE [value |-> FALSE, rng |-> takesUp.rng]
      first == IF complies.value /\ uptake THEN Draw(FirstScreenDraws, mixture.rng)
               ELSE [value |-> 0, rng |-> mixture.rng]
      participates == Draw(BOOLEAN, first.rng)
      organised == IF /\ participates.value
                      /\ screen \in {"stockholm3_goteborg", "stockholm3_risk_stratified"}
                      /\ 2013 - cohort >= 50 /\ 2013 - cohort < 70
                   THEN Draw(OrganisedDraws, participates.rng)
                   ELSE [value |-> 0, rng |-> participates.rng]
      res == FhcrcPerson_init(Kernel, FhcrcPerson(id, cohort), screen,
               [t0 |-> t0.value, dm |-> dm.value, dc |-> dc.value, dmc |-> dmc.value,
                aoc |-> aoc.value, grade |-> grade.value, grade7 |-> grade7.value,
                complies |-> complies.value, random |-> random.value,
                first |-> first.value, mixture |-> mixture.value,
                uptake |-> takesUp.value, participates |-> participates.value,
                organised |-> organised.value])
  IN [res EXCEPT !.rng = Rng_set(organised.rng, res.rng)]

\* person = FhcrcPerson(i+firstId, cohort[i]); Sim::create_process(&person)
FhcrcSeedCreate ==
  /\ driver = "fhcrc" /\ i < n
  /\ create_process(FhcrcSeedInit(rng, i, parms.cohort[i + 1]))

\* CalibPerson::handleMessage(msg) with its draws taken from the current
\* stream: rexp(lam2) in toPrecursor with diseasepot, rnorm in toPreClinical
CalibSeedHandle ==
  /\ driver = "calib" /\ msg # NoMsg
  /\ LET draws == \/ msg.kind = "toPrecursor" /\ person.diseasepot
                  \/ msg.kind = "toPreClinical"
         w == IF draws THEN Draw(DwellDraws, rng) ELSE [value |-> 0, rng |-> rng]
     IN process_event(CalibPerson_handleMessage(Kernel, person, report, msg, w.value)
                        @@ [c |-> costs, rng |-> w.rng])

\* the row of the prtx table of these runs
SeedPrtxRow == [CM |-> 30, RP |-> 40]

FhcrcSeedDraws_ScreenLeft(r, p, m, screen) ==
  LET psa == Draw(PsaDraws, r)
      nh == Rng_set(psa.rng, "Nh")
      none(x) == [value |-> FALSE, rng |-> x]
      d0 == [NoDraws EXCEPT !.psa = psa.value]
  IN CASE m.kind \in ScreenKinds ->
            LET asked == \/ m.kind = "toScreen" /\ psa.value >= parameter.psaThreshold
                         \/ /\ m.kind = "toBiopsyFollowUpScreen"
                            /\ psa.value >= parameter.psaThresholdBiopsyFollowUp
                complies == IF asked THEN Draw(ComplianceDraws, nh) ELSE none(nh)
                sc == Rng_set(complies.rng, "Screen")
                opportunistic ==
                  /\ ~complies.value /\ ~p.organised
                  /\ screen \in {"screenUptake", "stockholm3_goteborg",
                                 "stockholm3_risk_stratified"}
                u == IF opportunistic THEN Draw(BOOLEAN, sc) ELSE none(sc)
                t == IF opportunistic THEN Draw(RescreenDraws, u.rng)
                     ELSE [value |-> 0, rng |-> u.rng]
            IN [d |-> [d0 EXCEPT !.complies = complies.value, !.rescreens = u.value,
                                 !.rescreen = t.value],
                rng |-> IF complies.value THEN complies.rng ELSE t.rng]
       [] m.kind = "toScreenInitiatedBiopsy" ->
            LET sensitive == IF p.state = "Localised" THEN Draw(BOOLEAN, nh)
                             ELSE none(nh)
                followUp == /\ clock < 70 * Year
                            /\ \/ p.state = "Healthy"
                               \/ p.state = "Localised" /\ ~sensitive.value
                complies == IF followUp THEN Draw(ComplianceDraws, sensitive.rng)
                            ELSE none(sensitive.rng)
            IN [d |-> [d0 EXCEPT !.complies = complies.value,
                                 !.sensitive = sensitive.value],
                rng |-> complies.rng]
       [] m.kind = "toTreatment" ->
            LET u_tx == Draw({10, 50, 90}, Rng_set(nh, "Treatment"))
                u_adt == Draw(BOOLEAN, u_tx.rng)
                u_surv == Draw({<<2 * Year, 2 * Year>>, <<2 * Year, 6 * Year>>},
                               Rng_set(u_adt.rng, "Nh"))
            IN [d |-> [d0 EXCEPT !.u_tx = u_tx.value, !.row = SeedPrtxRow,
                                 !.adt = u_adt.value, !.surv = u_surv.value],
                rng |-> u_surv.rng]
       [] OTHER -> [d |-> d0, rng |-> nh]

\* the draws of FhcrcPerson::handleMessage(msg) from the streams, in the
\* order of the code: the measured PSA from the stream that is current; after
\* rngNh->set() the compliance of a screen with a PSA at the threshold, and
\* from rngScreen the two draws of the rescreening; the compliance or the
\* sensitivity of a biopsy; from rngTreatment u_tx and u_adt and, after
\* rngNh->set(), u_surv
FhcrcSeedDraws(r, p, m, screen) ==
  LET psa == Draw(PsaDraws, r)
      nh == Rng_set(psa.rng, "Nh")
      none(x) == [value |-> FALSE, rng |-> x]
      d0 == [NoDraws EXCEPT !.psa = psa.value]
  IN CASE m.kind \in ScreenKinds ->
            LET asked == \/ m.kind = "toScreen" /\ psa.value >= parameter.psaThreshold
                         \/ /\ m.kind = "toBiopsyFollowUpScreen"
                            /\ psa.value >= parameter.psaThresholdBiopsyFollowUp
                complies == IF asked THEN Draw(ComplianceDraws, nh) ELSE none(nh)
                sc == Rng_set(complies.rng, "Screen")
                opportunistic ==
                  /\ ~complies.value /\ ~p.organised
                  /\ screen \in {"screenUptake", "stockholm3_goteborg",
                                 "stockholm3_risk_stratified"}
                u == IF opportunistic THEN Draw(BOOLEAN, sc) ELSE none(sc)
                t == IF opportunistic THEN Draw(RescreenDraws, u.rng)
                     ELSE [value |-> 0, rng |-> u.rng]
            IN [d |-> [d0 EXCEPT !.complies = complies.value, !.rescreens = u.value,
                                 !.rescreen = t.value],
                rng |-> IF complies.value THEN complies.rng ELSE Rng_set(t.rng, "Nh")]
       [] m.kind = "toScreenInitiatedBiopsy" ->
            LET sensitive == IF p.state = "Localised" THEN Draw(BOOLEAN, nh)
                             ELSE none(nh)
                followUp == /\ clock < 70 * Year
                            /\ \/ p.state = "Healthy"
                               \/ p.state = "Localised" /\ ~sensitive.value
                complies == IF followUp THEN Draw(ComplianceDraws, sensitive.rng)
                            ELSE none(sensitive.rng)
            IN [d |-> [d0 EXCEPT !.complies = complies.value,
                                 !.sensitive = sensitive.value],
                rng |-> complies.rng]
       [] m.kind = "toTreatment" ->
            LET u_tx == Draw({10, 50, 90}, Rng_set(nh, "Treatment"))
                u_adt == Draw(BOOLEAN, u_tx.rng)
                u_surv == Draw({<<2 * Year, 2 * Year>>, <<2 * Year, 6 * Year>>},
                               Rng_set(u_adt.rng, "Nh"))
            IN [d |-> [d0 EXCEPT !.u_tx = u_tx.value, !.row = SeedPrtxRow,
                                 !.adt = u_adt.value, !.surv = u_surv.value],
                rng |-> u_surv.rng]
       [] OTHER -> [d |-> d0, rng |-> nh]

FhcrcSeedHandle ==
  /\ driver = "fhcrc" /\ msg # NoMsg
  /\ LET s == FhcrcSeedDraws(rng, person, msg, parms.screen)
         res == FhcrcPerson_handleMessage(Kernel, person, report, costs, msg,
                                          parms.screen, s.d)
     IN process_event([res EXCEPT !.rng = s.rng])

\* the end of one pass of the driver's loop: Sim::clear(), and in callFhcrc
\* nextSubstream() on each of the four streams; the messages dispatched for
\* the individual are kept from the first run
SeedClear_NoNextSubstream ==
  /\ pc = "clear"
  /\ clear
  /\ i' = i + 1
  /\ pc' = IF i + 1 < n THEN "create" ELSE "done"
  /\ rng' = rng
  /\ parms' = IF parms.run = "first"
              THEN [parms EXCEPT !.saved = Append(@, Dispatched(hist.trace))]
              ELSE parms
  /\ UNCHANGED <<driver, n, error, msg, person, report, costs, hist>>
SeedClear ==
  /\ pc = "clear"
  /\ clear
  /\ i' = i + 1
  /\ pc' = IF i + 1 < n THEN "create" ELSE "done"
  /\ rng' = IF driver = "fhcrc" THEN AdvanceAll(rng, FhcrcStreams) ELSE rng
  /\ parms' = IF parms.run = "first"
              THEN [parms EXCEPT !.saved = Append(@, Dispatched(hist.trace))]
              ELSE parms
  /\ UNCHANGED <<driver, n, error, msg, person, report, costs, hist>>

\* the driver is called once more for the same package seed, with the same
\* individuals ("again") or with the second individual only and every stream
\* advanced by one substream before the loop ("alone")
SeedRestart ==
  /\ pc = "done" /\ parms.run = "first"
  /\ \E run \in {"again", "alone"} :
       /\ parms' = [parms EXCEPT !.run = run,
                                 !.cohort = IF run = "alone" THEN <<@[2]>> ELSE @]
       /\ n' = IF run = "alone" THEN 1 ELSE 2
       /\ rng' = IF run = "alone"
                 THEN AdvanceAll(SeedDriverStart(rng, driver), DriverStreams)
                 ELSE SeedDriverStart(rng, driver)
  /\ i' = 0
  /\ pc' = "create"
  /\ person' = IF driver = "calib" THEN CalibPerson(0) ELSE FhcrcPerson(0, 1950)
  /\ report' = IF driver = "calib" THEN ("TimeAtRisk" :> <<>>)
               ELSE setPartition(EventReport_clear, ages)
  /\ costs' = <<>>
  /\ hist' = NoHist
  /\ UNCHANGED <<driver, clock, queue, running, current_process, nextSeq, error, msg>>

NextSeed ==
  \/ CalibSeedCreate
  \/ FhcrcSeedCreate
  \/ RunSimulation
  \/ RunPop
  \/ RunExit
  \/ CalibSeedHandle
  \/ FhcrcSeedHandle
  \/ SeedClear
  \/ SeedRestart

SpecSeed == InitSeed /\ [][NextSeed]_vars

\* ------------------------------------------------------------- claims
\* the message handled last or being handled in this run, and the order of
\* dispatch: by timestamp, and by order of scheduling for one timestamp
Handling == pc = "loop" /\ msg # NoMsg
JustHandled == pc = "loop" /\ msg = NoMsg /\ hist.lastMsg # NoMsg
Before(a, b) ==
  a.timestamp < b.timestamp \/ (a.timestamp = b.timestamp /\ a.seq < b.seq)

\* C1: messages are dispatched in non-decreasing timestamp order and, for
\* equal timestamps, in the order in which they were scheduled: the message
\* being handled is stamped with the clock, comes after the message handled
\* before it and before every message still pending.
C1_DispatchOrder ==
  Handling =>
    /\ clock = msg.timestamp
    /\ hist.lastMsg # NoMsg => Before(hist.lastMsg, msg)
    /\ \A e \in queue : Before(msg, e)

\* C1 happens: a message scheduled at now() from inside a handler is handled
\* after an earlier one of the same timestamp, a later one still pending.
C1_Witness ==
  /\ Handling /\ clock > 0
  /\ msg.sendingTime = msg.timestamp
  /\ hist.lastMsg # NoMsg /\ hist.lastMsg.timestamp = msg.timestamp
  /\ \E e \in queue : e.timestamp = msg.timestamp /\ e.sendingTime = e.timestamp

\* C2: a remove-by-kind call inside a handler takes every pending message of
\* that kind and no other out of the queue; a removed message is never
\* dispatched later, and what the handler schedules after the call stays.
C2_RemoveKind ==
  /\ JustHandled =>
       /\ \A e \in hist.before : e \in queue <=> e.kind \notin hist.removedKinds
       /\ \A e \in queue \ hist.before : e.sendingTime = clock
  /\ Handling => msg.seq \notin hist.removedSeqs
  /\ \A e \in queue : e.seq \notin hist.removedSeqs

\* C2 happens: toMetastatic has removed the pending toClinicalDiagnosis and
\* toUtility messages and left the others, and the toClinicalDiagnosis it
\* scheduled after the calls is being handled.
C2_Witness ==
  /\ Handling /\ msg.kind = "toClinicalDiagnosis"
  /\ person.state = "Metastatic"
  /\ \E s \in hist.removedSeqs : s < msg.seq
  /\ \E e \in queue : e.kind = "toOtherDeath"

\* C3: once a handler has called stop_simulation() the handler completes and
\* the loop exits: nothing is dispatched after a death message in that run.
C3_StopEndsDispatch ==
  hist.lastMsg.kind \in DeathKinds => msg = NoMsg /\ ~running

\* C3 happens: the run has ended after a death message, with messages of the
\* same timestamp and of a later timestamp still in the queue.
C3_Witness ==
  /\ pc = "clear" /\ hist.lastMsg.kind \in DeathKinds
  /\ \E e \in queue : e.timestamp = clock
  /\ \E e \in queue : e.timestamp > clock

\* C4: after clear() the queue is empty, the clock is 0 and no process is
\* attached, so that every individual starts at clock 0 and every message
\* pending or dispatched was scheduled for the individual of this pass.
C4_ClearBetweenIndividuals ==
  /\ pc = "create" => queue = {} /\ clock = 0 /\ current_process = NoProcess
  /\ pc = "run" => clock = 0
  /\ \A e \in queue : pc \in {"run", "loop"} => e.owner = i
  /\ msg # NoMsg => msg.owner = i

\* C4 happens: the loop is about to create the second individual, the first
\* having died at a positive clock with messages still in the queue.
C4_Witness ==
  /\ pc = "create" /\ i >= 1
  /\ hist.lastMsg.kind \in DeathKinds /\ hist.lastMsg.timestamp > 0
  /\ hist.before # {}

\* C5: scheduleAt(t, msg) with t < now() fails with TimeReversal and does not
\* queue the message: no pending message was scheduled for a time before
\* the clock of its scheduling, and a run has failed exactly when a message
\* for a time before the clock was refused.
C5_TimeReversal ==
  /\ \A e \in queue : e.timestamp >= e.sendingTime /\ e.time = e.timestamp
  /\ error = "TimeReversal" <=> hist.refused # NoMsg
  /\ hist.refused # NoMsg =>
       /\ hist.refused.timestamp < hist.refused.sendingTime
       /\ \A e \in queue : e.timestamp # hist.refused.timestamp
                              \/ e.sendingTime # hist.refused.sendingTime

\* C5 happens: a handler has asked for a toCancerDeath before the clock.
C5_Witness ==
  /\ error = "TimeReversal"
  /\ hist.refused.kind = "toCancerDeath"
  /\ hist.refused.timestamp < clock

\* C6: inside every handler, in the three models, previous_event_time is at
\* most now(), also for a later individual of a process object that the
\* driver uses again.
C6_PreviousEventTime ==
  Handling => person.previousEventTime <= clock

\* C7 as stated: previous_event_time = now() only while the first message of
\* an individual is handled, and previous_event_time < now() for every later
\* message.
C7_EqualityOnlyAtFirst ==
  (Handling /\ hist.lastMsg # NoMsg) => person.previousEventTime < clock

\* C7 amended: inside a handler of the cancer and illness-death models,
\* previous_event_time is the timestamp of the message handled before it for
\* this individual, and 0 for the first message; it equals now() exactly
\* when the message has the timestamp of its predecessor.
C7_PreviousIsLastTimestamp ==
  (Handling /\ driver # "calib") =>
    /\ person.previousEventTime =
         (IF hist.lastMsg = NoMsg THEN 0 ELSE hist.lastMsg.timestamp)
    /\ person.previousEventTime <= clock
    /\ person.previousEventTime = clock <=>
         (IF hist.lastMsg = NoMsg THEN msg.timestamp = 0
          ELSE msg.timestamp = hist.lastMsg.timestamp)

\* C7 happens: a later message of an individual is handled at the clock of
\* the message before it, and previous_event_time is that clock.
C7_Witness ==
  /\ Handling /\ driver = "fhcrc" /\ clock > 0
  /\ hist.lastMsg # NoMsg /\ hist.lastMsg.timestamp = clock
  /\ person.previousEventTime = clock

\* the age at death of the individual whose run has ended: the timestamp of
\* the death message, and beyond every age (the _max of the report) for an
\* individual who has not died
death_age ==
  IF hist.lastMsg.kind \in DeathKinds THEN hist.lastMsg.timestamp ELSE report.max

\* C8: for every individual of the cancer and illness-death models, the
\* person-time added to the report, over all states and age buckets, is
\* min(death_age, _max).
C8_PersonTime ==
  (pc = "clear" /\ driver # "calib") =>
    hist.ptAdded = Min(death_age, report.max)

\* C9: exactly one of toCancerDeath and toOtherDeath is dispatched for every
\* individual of the cancer and illness-death models.
C9_OneDeath ==
  (pc = "clear" /\ driver # "calib") => hist.deaths = 1

\* C10: in the cancer model dx changes at most once: once an individual is
\* diagnosed, no handler changes dx again.
C10_DxChangesOnce ==
  [][(driver = "fhcrc" /\ pc = "loop" /\ person.dx # "NotDiagnosed")
       => person'.dx = person.dx]_vars

\* the place of a state in the order Healthy, Localised, Metastatic
StateRank(st) ==
  CASE st = "Healthy" -> 0 [] st = "Localised" -> 1 [] st = "Metastatic" -> 2

\* C11: in the cancer model state only moves forward in the order Healthy,
\* Localised, Metastatic, one place at a time: no handler moves it back and
\* none takes it from Healthy to Metastatic.
C11_StateMonotone ==
  [][(driver = "fhcrc" /\ pc = "loop") =>
       /\ StateRank(person'.state) >= StateRank(person.state)
       /\ StateRank(person'.state) <= StateRank(person.state) + 1]_vars

\* C11 happens: an individual who has become Metastatic is handling a later
\* message.
C11_Witness ==
  /\ driver = "fhcrc" /\ Handling
  /\ person.state = "Metastatic" /\ hist.lastMsg.kind # "toMetastatic"

\* C12: immediately after toMetastatic is handled the queue holds exactly
\* one toClinicalDiagnosis, the one that handler scheduled at tmc+35; none
\* scheduled before the metastatic event is pending.
C12_OneClinicalDiagnosis ==
  (JustHandled /\ hist.lastMsg.kind = "toMetastatic" /\ error = "none") =>
    /\ Cardinality({e \in queue : e.kind = "toClinicalDiagnosis"}) = 1
    /\ \A e \in queue : e.kind = "toClinicalDiagnosis" =>
         /\ e \notin hist.before
         /\ e.sendingTime = clock
         /\ e.timestamp = person.tmc + 35 * Year

\* C12 happens: toMetastatic has been handled with the toClinicalDiagnosis
\* of toLocalised pending.
C12_Witness ==
  /\ JustHandled /\ hist.lastMsg.kind = "toMetastatic" /\ error = "none"
  /\ \E e \in hist.before : e.kind = "toClinicalDiagnosis"

\* the first toTreatment handled after place k of the trace, 0 if none
TreatmentAfter(k) ==
  LET js == {j \in (k + 1)..Len(hist.trace) : hist.trace[j].kind = "toTreatment"}
  IN IF js = {} THEN 0 ELSE CHOOSE j \in js : \A j2 \in js : j <= j2

\* C13: when toClinicalDiagnosis is handled at time t, the three
\* toClinicalDiagnosticBiopsy messages it schedules are all dispatched, at
\* clock t, before the toTreatment it schedules at t, and the run does not
\* end before the four are dispatched.
C13_BiopsiesBeforeTreatment ==
  \A k \in 1..Len(hist.trace) :
    hist.trace[k].kind = "toClinicalDiagnosis" =>
      LET t == hist.trace[k].timestamp
          j == TreatmentAfter(k)
          upto == IF j = 0 THEN Len(hist.trace) ELSE j
          biopsies == {b \in (k + 1)..upto :
                         hist.trace[b].kind = "toClinicalDiagnosticBiopsy"}
      IN /\ \A b \in biopsies : hist.trace[b].timestamp = t
         /\ j # 0 => /\ Cardinality(biopsies) = 3
                     /\ hist.trace[j].timestamp = t
                     /\ hist.trace[j].sendingTime = t
         /\ pc # "loop" => j # 0

\* C13 happens: a run with a clinical diagnosis has ended, the toTreatment
\* handled four messages after the toClinicalDiagnosis.
C13_Witness ==
  /\ pc = "clear"
  /\ \E k \in 1..Len(hist.trace) :
       /\ hist.trace[k].kind = "toClinicalDiagnosis"
       /\ k + 4 <= Len(hist.trace)
       /\ hist.trace[k + 4].kind = "toTreatment"

\* ---------------------------------------------- claims on EventReport
\* m[k] read without creating the entry: 0 when absent
Get(m, k) == IF k \in DOMAIN m THEN m[k] ELSE 0
Max(a, b) == IF a > b THEN a ELSE b

\* an add call has returned; its arguments are in msg, the object it found
\* in hist.before
Added == driver = "report" /\ pc = "added" /\ msg.kind = "add"

\* what the call added to the entry k of a table
Grew(table, k) == Get(report[table], k) - Get(hist.before[table], k)
Keys(table) == DOMAIN report[table] \cup DOMAIN hist.before[table]

\* the positions of the buckets [partition[j], partition[j + 1]) of the
\* object the call found
Buckets == 1..(Len(hist.before.partition) - 1)
Edge(j) == hist.before.partition[j]

\* the length of the part of [lhs, rhs) that lies in bucket j
Overlap(j, lhs, rhs) ==
  Max(0, Min(Edge(j + 1), rhs) - Max(Edge(j), lhs))

\* C14: add(state, event, lhs, rhs) with rhs >= _max adds person-time only
\* for the part of [lhs, rhs) that lies below _max (to each bucket of the
\* state the length of its part of [lhs, _max), nothing anywhere else) and
\* changes no event count.
C14_BeyondMax ==
  (Added /\ msg.rhs >= hist.before.max) =>
    /\ report.events = hist.before.events
    /\ \A k \in Keys("pt") :
         Grew("pt", k) =
           IF k[1] = msg.state /\ \E j \in Buckets : Edge(j) = k[2]
           THEN LET j == CHOOSE j \in Buckets : Edge(j) = k[2]
                IN Overlap(j, msg.lhs, hist.before.max)
           ELSE 0
    /\ \A j \in Buckets :
         Overlap(j, msg.lhs, hist.before.max) > 0 =>
           <<msg.state, Edge(j)>> \in DOMAIN report.pt

\* C14 happens: an interval that starts inside a bucket and ends beyond
\* _max is added to an object that already has events and person-time
C14_Witness ==
  /\ Added /\ msg.rhs > hist.before.max
  /\ msg.lhs \notin {Edge(j) : j \in 1..Len(hist.before.partition)}
  /\ hist.before.events # <<>>
  /\ Grew("pt", <<msg.state, 0>>) > 0

\* the greatest partition edge that is <= x: the edge a of the half-open
\* bucket [a, next edge) that contains x
EdgeBelow(x) ==
  LET es == {Edge(j) : j \in 1..Len(hist.before.partition)}
  IN CHOOSE a \in es : a <= x /\ \A b \in es : b <= x => b <= a

\* C15: add(state, event, lhs, rhs) with lhs <= rhs < _max increments
\* events[state][event][a] by exactly 1, where a is the edge of the bucket
\* [a, next edge) that contains rhs, also for an rhs equal to an edge, and
\* changes no other event count.  Stated for the calls whose behaviour is
\* defined, rhs above the first edge.
C15_EventBucket ==
  (Added /\ msg.rhs < hist.before.max /\ msg.rhs > Edge(1)) =>
    \A k \in Keys("events") :
      Grew("events", k) =
        IF k = <<msg.state, msg.event, EdgeBelow(msg.rhs)>> THEN 1 ELSE 0

\* what the code does: the event is counted at the edge of the last bucket
\* the loop visited, which for an rhs equal to an edge is the bucket that
\* ends at rhs
C15_EventAtLastVisited ==
  (Added /\ msg.rhs < hist.before.max /\ msg.rhs > Edge(1)) =>
    \A k \in Keys("events") :
      Grew("events", k) =
        IF k = <<msg.state, msg.event, EdgeBelow(msg.rhs - 1)>> THEN 1 ELSE 0

\* C15 happens: an interval that ends at an edge above the first one
C15_Witness ==
  /\ Added /\ msg.rhs < hist.before.max /\ msg.rhs > Edge(1)
  /\ msg.rhs = EdgeBelow(msg.rhs)
  /\ msg.lhs < msg.rhs

\* an add call has been made, whatever its outcome
AddCalled == driver = "report" /\ pc \in {"added", "fault"} /\ msg.kind = "add"

\* the event counts the call incremented by 1, and those it changed at all
EventsIncremented == {k \in Keys("events") : Grew("events", k) = 1}
EventsChanged == {k \in Keys("events") : Grew("events", k) # 0}

\* C16: add with an empty interval lhs == rhs < _max, for every lhs in the
\* partition range, an lhs equal to an edge and lhs = 0 (the first edge)
\* included, changes no person-time total and no prevalence count and
\* increments exactly one event count by 1: a count of the call's state and
\* event, at an edge of the partition.
C16_EmptyInterval ==
  (AddCalled /\ msg.lhs = msg.rhs /\ msg.rhs < hist.before.max) =>
    /\ \A k \in Keys("pt") : Grew("pt", k) = 0
    /\ \A k \in Keys("prev") : Grew("prev", k) = 0
    /\ Cardinality(EventsIncremented) = 1
    /\ EventsChanged = EventsIncremented
    /\ \A k \in EventsIncremented : k[1] = msg.state /\ k[2] = msg.event
    /\ \A k \in EventsIncremented :
         \E j \in 1..Len(hist.before.partition) : k[3] = Edge(j)

\* the same for the empty intervals above the first edge, where the call's
\* behaviour is defined
C16_EmptyIntervalAboveFirstEdge ==
  (AddCalled /\ msg.lhs = msg.rhs /\ msg.rhs < hist.before.max
     /\ msg.lhs > Edge(1)) =>
    /\ pc = "added"
    /\ \A k \in Keys("pt") : Grew("pt", k) = 0
    /\ \A k \in Keys("prev") : Grew("prev", k) = 0
    /\ Cardinality(EventsIncremented) = 1
    /\ EventsChanged = EventsIncremented
    /\ \A k \in EventsIncremented : k[1] = msg.state /\ k[2] = msg.event
    /\ \A k \in EventsIncremented :
         \E j \in 1..Len(hist.before.partition) : k[3] = Edge(j)

\* C16 happens: an empty interval at the first edge of the partition 0, 2, 3
C16_Witness ==
  /\ AddCalled /\ msg.lhs = 0 /\ msg.rhs = 0
  /\ hist.before.partition = <<0, 2, 3>>

\* the buckets the interval [lhs, rhs) of the call reaches: from the one
\* that holds lhs through min(rhs, _max)
Reached(j) ==
  /\ Edge(j + 1) > msg.lhs
  /\ Edge(j) < Min(msg.rhs, hist.before.max)

\* C17: for lhs <= rhs inside the partition range, add adds to
\* pt[state][a_i], for every bucket [a_i, a_i+1) from the greatest edge
\* a_i <= lhs through min(rhs, _max), exactly
\* min(a_i+1, rhs) - max(a_i, lhs), and changes the person-time of no other
\* bucket and of no other state.
C17_PersonTimePerBucket ==
  Added =>
    /\ \A j \in Buckets :
         Reached(j) =>
           /\ <<msg.state, Edge(j)>> \in DOMAIN report.pt
           /\ Grew("pt", <<msg.state, Edge(j)>>) =
                Min(Edge(j + 1), msg.rhs) - Max(Edge(j), msg.lhs)
    /\ \A k \in Keys("pt") :
         (k[1] # msg.state \/ ~ \E j \in Buckets : Reached(j) /\ Edge(j) = k[2])
           => /\ k \in DOMAIN hist.before.pt
              /\ Grew("pt", k) = 0

\* C17 happens: an interval that starts inside one bucket and ends inside
\* the next, added to an object that holds person-time of the other state
C17_Witness ==
  /\ Added /\ hist.before.partition = <<0, 2, 3>>
  /\ msg.lhs = 1 /\ msg.rhs = 3
  /\ Grew("pt", <<msg.state, 0>>) = 1 /\ Grew("pt", <<msg.state, 2>>) = 1
  /\ \E k \in DOMAIN hist.before.pt : k[1] # msg.state

\* C18: add increments prev[state][a_i] by 1 for exactly the partition
\* edges a_i with lhs <= a_i < rhs (below _max), and for no other edge or
\* state.
C18_Prevalence ==
  Added =>
    \A k \in Keys("prev") \cup
             {<<msg.state, Edge(j)>> : j \in 1..Len(hist.before.partition)} :
      Grew("prev", k) =
        IF /\ k[1] = msg.state
           /\ \E j \in 1..Len(hist.before.partition) : Edge(j) = k[2]
           /\ msg.lhs <= k[2] /\ k[2] < msg.rhs /\ k[2] < hist.before.max
        THEN 1 ELSE 0

\* C18 happens: an interval that starts inside a bucket and covers the
\* next edge, added to an object that holds prevalence counts
C18_Witness ==
  /\ Added /\ hist.before.partition = <<0, 2, 3>>
  /\ msg.lhs = 1 /\ msg.rhs = 4
  /\ hist.before.prev # <<>>
  /\ Grew("prev", <<msg.state, 2>>) = 1

\* C19: starting from clear(), setPartition(p) called twice leaves the
\* object (partition, _max, pt, events, prev) as setPartition(p) called
\* once left it, so that the add calls that follow find the same object
\* and give the same tables.
C19_SetPartitionTwice ==
  (driver = "report" /\ pc = "set2"
     /\ msg.partition = hist.before.partition) =>
    report = hist.before

\* C19 happens: the second setPartition(p), on an object that was used and
\* cleared before, whose _max the first call replaced
C19_Witness ==
  /\ driver = "report" /\ pc = "set2"
  /\ msg.partition = hist.before.partition
  /\ i >= 1
  /\ report.partition = <<0, 2, 3>>

\* ------------------------------------------- claims on the random streams
\* the values stream s gives when the calls ops are made on it alone, from
\* the place st on
RECURSIVE Alone(_, _, _)
Alone(s, ops, st) ==
  IF ops = <<>> THEN <<>>
  ELSE IF Head(ops) = "draw"
       THEN <<(<<s, st.sub, st.pos>>)>>
              \o Alone(s, Tail(ops), [st EXCEPT !.pos = @ + 1])
       ELSE Alone(s, Tail(ops), [sub |-> st.sub + 1, pos |-> 0])

\* the place stream s is at when the calls ops are made on it alone
RECURSIVE PlaceAlone(_, _)
PlaceAlone(ops, st) ==
  IF ops = <<>> THEN st
  ELSE IF Head(ops) = "draw"
       THEN PlaceAlone(Tail(ops), [st EXCEPT !.pos = @ + 1])
       ELSE PlaceAlone(Tail(ops), [sub |-> st.sub + 1, pos |-> 0])

\* C20: for two streams A and B, the sequence of values drawn while A is
\* the active stream is the same whether or not set() and draws on B are
\* interleaved between A's draws: it is the sequence A gives when A's calls
\* are made alone, and a draw advances only the stream that was last set().
C20_StreamsIndependent ==
  driver = "rng" =>
    \A s \in Streams :
      /\ hist.trace[s] = Alone(s, hist.before[s], NewStream)
      /\ rng.streams[s] = PlaceAlone(hist.before[s], NewStream)

\* C20 happens: a second draw of A after a set() and a draw of B
C20_Witness ==
  /\ driver = "rng"
  /\ msg.kind = "WithRNG" /\ msg.stream = "A"
  /\ hist.lastMsg.kind = "draw" /\ hist.lastMsg.stream = "B"
  /\ Len(hist.trace["A"]) = 2
  /\ hist.trace["A"][2] = <<"A", 0, 1>>

\* ------------------------------------------- claims on the cancer model
\* the pending messages of a kind
Pending(kind) == {e \in queue : e.kind = kind}

\* init() has just run for an individual of the cancer model
JustInitialised == driver = "fhcrc" /\ pc = "run"

\* C23: under fourYearlyScreen50to70 with screening compliance 1.0, init()
\* schedules exactly 6 toScreen messages, at ages 50, 54, 58, 62, 66 and 70.
C23_FourYearlyScreens ==
  (JustInitialised /\ parms.screen = "fourYearlyScreen50to70") =>
    /\ Cardinality(Pending("toScreen")) = 6
    /\ {e.timestamp : e \in Pending("toScreen")} =
         {50 * Year, 54 * Year, 58 * Year, 62 * Year, 66 * Year, 70 * Year}
    /\ \A e \in Pending("toScreen") : e.sendingTime = 0

\* C23 happens: init() has run under fourYearlyScreen50to70 and has
\* scheduled a screen at 70
C23_Witness ==
  /\ JustInitialised /\ parms.screen = "fourYearlyScreen50to70"
  /\ \E e \in Pending("toScreen") : e.timestamp = 70 * Year

\* C24: under twoYearlyScreen50to70, every toScreen message ever scheduled
\* for an individual, by init() or by any handler, has its timestamp inside
\* [50, 70].
C24_TwoYearlyWithin50to70 ==
  (driver = "fhcrc" /\ parms.screen = "twoYearlyScreen50to70") =>
    \A e \in Pending("toScreen") \cup (IF msg = NoMsg THEN {} ELSE {msg}) :
      e.kind = "toScreen" =>
        50 * Year <= e.timestamp /\ e.timestamp <= 70 * Year

\* C24 happens: under twoYearlyScreen50to70 a screen has been handled, a
\* handler has scheduled a follow-up screen after a biopsy, and the screen
\* of age 70 is pending
C24_Witness ==
  /\ driver = "fhcrc" /\ parms.screen = "twoYearlyScreen50to70"
  /\ \E k \in 1..Len(hist.trace) : hist.trace[k].kind = "toScreenInitiatedBiopsy"
  /\ \E e \in Pending("toScreen") : e.timestamp = 70 * Year /\ e.sendingTime = 0

\* ------------------------------------ claims on the illness-death model
\* the first individual's run has ended with the death from other causes as
\* its only message: the cancer branch was not taken
DiedHealthy ==
  /\ driver = "illness" /\ pc = "clear" /\ i = 0
  /\ Len(hist.trace) = 1 /\ hist.trace[1].kind = "toOtherDeath"

\* the edge of the bucket [a, a + 1) of the driver's partition that holds
\* age t
BucketOf(t) == IF t >= 100 * Year THEN 100 * Year ELSE (t \div Year) * Year

\* the sum of the person-time entries of a state
RECURSIVE SumPt(_, _)
SumPt(state, keys) ==
  IF keys = {} THEN 0
  ELSE LET k == CHOOSE x \in keys : TRUE
       IN (IF k[1] = state THEN report.pt[k] ELSE 0) + SumPt(state, keys \ {k})

C25_HealthyDeathAsCoded ==
  DiedHealthy =>
    LET age_d == hist.trace[1].timestamp
    IN /\ DOMAIN report.events =
            {<<"Healthy", "toOtherDeath", BucketOf(age_d - 1)>>}
       /\ \A k \in DOMAIN report.events : report.events[k] = 1
       /\ \A k \in DOMAIN report.pt : k[1] = "Healthy"
       /\ SumPt("Healthy", DOMAIN report.pt) = age_d

Scheduled(kind) == {e \in Pending(kind) : e \notin hist.before}

\* C26: immediately after toScreenDiagnosis is handled the queue holds no
\* toMetastatic, toClinicalDiagnosis or toScreen message, and immediately
\* after toClinicalDiagnosis is handled it holds no toMetastatic or toScreen
\* message; in both cases exactly one toTreatment at now() has been
\* scheduled.
C26_DiagnosisRemovesCompetitors ==
  (driver = "fhcrc" /\ JustHandled /\ error = "none") =>
    /\ hist.lastMsg.kind = "toScreenDiagnosis" =>
         /\ Pending("toMetastatic") = {}
         /\ Pending("toClinicalDiagnosis") = {}
         /\ Pending("toScreen") = {}
    /\ hist.lastMsg.kind = "toClinicalDiagnosis" =>
         /\ Pending("toMetastatic") = {}
         /\ Pending("toScreen") = {}
    /\ hist.lastMsg.kind \in {"toScreenDiagnosis", "toClinicalDiagnosis"} =>
         /\ Cardinality(Scheduled("toTreatment")) = 1
         /\ \A e \in Scheduled("toTreatment") :
              e.timestamp = clock /\ e.sendingTime = clock

\* C26 happens: toScreenDiagnosis is handled while toMetastatic,
\* toClinicalDiagnosis and toScreen are pending
C26_Witness ==
  /\ driver = "fhcrc" /\ JustHandled /\ error = "none"
  /\ hist.lastMsg.kind = "toScreenDiagnosis"
  /\ \A kind \in {"toMetastatic", "toClinicalDiagnosis", "toScreen"} :
       \E e \in hist.before : e.kind = kind

\* toClinicalDiagnosis is handled while toMetastatic and toScreen are pending
C26_WitnessClinical ==
  /\ driver = "fhcrc" /\ JustHandled /\ error = "none"
  /\ hist.lastMsg.kind = "toClinicalDiagnosis"
  /\ \A kind \in {"toMetastatic", "toScreen"} :
       \E e \in hist.before : e.kind = kind

\* toTreatment has just been handled, with the draws hist.draws
Treated ==
  /\ driver = "fhcrc" /\ JustHandled /\ error = "none"
  /\ hist.lastMsg.kind = "toTreatment"

\* C27: when toTreatment is handled in state Localised, exactly one of toCM,
\* toRP, toRT is scheduled at now() (CM if u < pCM, RP if
\* pCM <= u < pCM + pRP, RT for any residual, whatever the value of
\* pCM + pRP), and toADT is scheduled only if the ADT draw is below its
\* table probability; when it is handled in state Metastatic none of toCM,
\* toRP, toRT, toADT is scheduled.
C27_TreatmentAssignment ==
  Treated =>
    LET u   == hist.draws.u_tx
        pCM == hist.draws.row.CM
        pRP == hist.draws.row.RP
        expected == IF u < pCM THEN "toCM"
                    ELSE IF u < pCM + pRP THEN "toRP" ELSE "toRT"
    IN /\ person.state = "Localised" =>
            /\ \A kind \in {"toCM", "toRP", "toRT"} :
                 Cardinality(Scheduled(kind)) = (IF kind = expected THEN 1 ELSE 0)
            /\ Scheduled("toADT") # {} => hist.draws.adt
            /\ Cardinality(Scheduled("toADT")) <= 1
            /\ \A e \in Scheduled("toCM") \cup Scheduled("toRP")
                          \cup Scheduled("toRT") \cup Scheduled("toADT") :
                 e.timestamp = clock
       /\ person.state = "Metastatic" =>
            \A kind \in {"toCM", "toRP", "toRT", "toADT"} : Scheduled(kind) = {}

\* C27 happens: a localised cancer is treated with a table row whose pCM and
\* pRP sum to more than 1 and a draw above pCM
C27_Witness ==
  /\ Treated /\ person.state = "Localised"
  /\ hist.draws.row.CM + hist.draws.row.RP > 100
  /\ hist.draws.u_tx >= hist.draws.row.CM
  /\ Scheduled("toRP") # {}

\* a metastatic cancer is treated while the ADT draw is below its probability
C27_WitnessMetastatic ==
  /\ Treated /\ person.state = "Metastatic" /\ hist.draws.adt

\* --------------------------------------- claims on the survival lookup
\* calculate_survival has been called for a localised diagnosis
LookedUp ==
  /\ driver = "survival" /\ pc \in {"returned", "fault"} /\ parms.localised

Clamped == bounds(parms.age_diag, 50 * Year, 80 * Year)

LookedUpTables == JustHandled /\ hist.lookups # {}

\* C29: every numeric key component that the cancer model passes to a table
\* lookup (age, calendar year, PSA in the treatment, ADT, biopsy-compliance
\* and rescreening tables) has first been clamped: it went through bounds()
\* and is the raw value brought into the range.
C29_AllKeysClamped ==
  LookedUpTables =>
    \A l \in hist.lookups :
      /\ l.range # <<>>
      /\ l.key = bounds(l.raw, l.range[1], l.range[2])
      /\ l.key >= l.range[1] /\ l.key <= l.range[2]

\* C29, as the code has it: every key component but the PSA value of the
\* rescreening tables is clamped; that one is the raw PSA value.
C29_AllButRescreeningPsa ==
  LookedUpTables =>
    \A l \in hist.lookups :
      IF l.table = "rescreening" /\ l.component = "total"
      THEN l.range = <<>> /\ l.key = l.raw
      ELSE /\ l.range # <<>>
           /\ l.key >= l.range[1] /\ l.key <= l.range[2]
           /\ (l.raw >= l.range[1] /\ l.raw <= l.range[2] => l.key = l.raw)

\* an opportunistic screen that led to no biopsy has looked up the
\* rescreening tables, and a treatment has looked up prtx with an age outside
\* its range
C29_Witness ==
  /\ LookedUpTables
  /\ \E l \in hist.lookups : l.table = "rescreening" /\ l.component = "total"
C29_WitnessClamped ==
  /\ LookedUpTables
  /\ \E l \in hist.lookups : l.table = "prtx" /\ l.key # l.raw

\* ------------------------------------------------------------------ C30
\* enum stage_t, by stage_names
Stages == {"DiseaseFree", "Precursor", "PreClinical", "Clinical", "Death"}

\* the count vectors of the calibration report, and the count of stage s at
\* index k (0-based; 0 for a stage that has no vector yet)
CountVectors(r) == DOMAIN r \ {"TimeAtRisk"}
CountAt(r, s, k) == IF s \in DOMAIN r THEN r[s][k + 1] ELSE 0

\* the decade ages 10(k+1), k in 0..9, strictly below age t
DecadesBelow(t) == {10 * (k + 1) * Year : k \in {j \in 0..9 : 10 * (j + 1) * Year < t}}

\* the Count messages the individual has handled
CountsHandled(trace) == {j \in 1..Len(trace) : trace[j].kind = "Count"}

\* C30: in the calibration model every count vector has exactly 10 entries;
\* a step adds exactly 1 at index k of the vector of the person's stage when
\* it handles the Count of decade age 10(k+1), and changes no count
\* otherwise; and when the run of an individual ends, the Counts handled are
\* one for each decade age strictly below the age at death, none at or after.
C30_DecadeCounts ==
  [][driver = "calib" =>
       /\ \A s \in CountVectors(report') : Len(report'[s]) = 10
       /\ CountVectors(report') \subseteq Stages
       /\ \A s \in Stages, k \in 0..9 :
            CountAt(report', s, k) - CountAt(report, s, k) =
              IF /\ msg # NoMsg /\ msg' = NoMsg /\ msg.kind = "Count"
                 /\ s = person.stage /\ clock = 10 * (k + 1) * Year
              THEN 1 ELSE 0
       /\ (pc = "loop" /\ pc' = "clear") =>
            /\ hist.lastMsg.kind = "toDeath"
            /\ {hist.trace[j].timestamp : j \in CountsHandled(hist.trace)}
                 = DecadesBelow(hist.lastMsg.timestamp)
            /\ Cardinality(CountsHandled(hist.trace))
                 = Cardinality(DecadesBelow(hist.lastMsg.timestamp))]_vars

\* an individual has died at a decade age (20), having been counted at 10
\* only; another has died after 100, having been counted ten times
C30_Witness ==
  /\ driver = "calib" /\ pc = "clear"
  /\ hist.lastMsg.kind = "toDeath" /\ hist.lastMsg.timestamp = 20 * Year
  /\ Cardinality(CountsHandled(hist.trace)) = 1
C30_WitnessAllDecades ==
  /\ driver = "calib" /\ pc = "clear"
  /\ hist.lastMsg.kind = "toDeath" /\ hist.lastMsg.timestamp > 100 * Year
  /\ Cardinality(CountsHandled(hist.trace)) = 10
  /\ \E s \in CountVectors(report) : report[s][10] > 0

\* ---------------------------------------------- claims on seeded runs
\* the individual of the first run that the individual now running repeats
Repeats == IF parms.run = "alone" THEN 2 ELSE i + 1
InRun == pc \in {"run", "loop", "clear"}
IsPrefix(a, b) == Len(a) <= Len(b) /\ \A j \in 1..Len(a) : a[j] = b[j]

C22_AloneAsAfterFirst ==
  (parms.run = "alone" /\ InRun) =>
    /\ IsPrefix(Dispatched(hist.trace), parms.saved[2])
    /\ pc = "clear" => Dispatched(hist.trace) = parms.saved[2]

\* individual 1 has been run alone in the cancer model, after an individual
\* 0 whose messages were others and who left streams inside a substream
C22_Witness ==
  /\ parms.run = "alone" /\ pc = "clear" /\ driver = "fhcrc"
  /\ Len(hist.trace) > 4
  /\ parms.saved[1] # parms.saved[2]
C22_WitnessCalib ==
  /\ parms.run = "alone" /\ pc = "clear" /\ driver = "calib"
  /\ parms.saved[1] # parms.saved[2]

\* ------------------------------------------------------------------ C31
\* entry j (1-based) of TimeAtRisk, 0 for an entry the vector does not have
RiskAt(r, j) == IF j <= Len(r["TimeAtRisk"]) THEN r["TimeAtRisk"][j] ELSE 0

\* the toDeath of the calibration model is being handled in this step
HandlingDeath == driver = "calib" /\ msg # NoMsg /\ msg' = NoMsg /\ msg.kind = "toDeath"

\* the age at clinical onset of the individual who dies now or, if never
\* clinical, the age at death
ClinOrDeath == IF person.stage = "Clinical" THEN person.clinTime ELSE clock

\* C31: after the calibration run TimeAtRisk has exactly 4 entries and entry
\* i is the sum over the individuals of min(c_i, clinTime), c = (20, 40, 60,
\* 80): the vector starts empty, only the death of an individual changes it,
\* and that death leaves 4 entries and adds min(c_i, clinTime) to each.
C31_TimeAtRisk ==
  [][driver = "calib" =>
       IF HandlingDeath
       THEN /\ Len(report'["TimeAtRisk"]) = 4
            /\ \A j \in 1..4 :
                 RiskAt(report', j) - RiskAt(report, j) = Min(ctime[j], ClinOrDeath)
       ELSE report'["TimeAtRisk"] = report["TimeAtRisk"]]_vars

\* the first entry (1-based) at which the loop over ctime stops
LastEntry(t) == IF t < ctime[1] THEN 1 ELSE IF t < ctime[2] THEN 2
                ELSE IF t < ctime[3] THEN 3 ELSE 4

\* C31, as the code has it: a death adds min(c_i, clinTime) to the entries up
\* to the first c_i above clinTime and to no later entry, and the vector has
\* as many entries as the longest-lived individual so far has reached.
C31_TimeAtRiskAsCoded ==
  [][driver = "calib" =>
       IF HandlingDeath
       THEN /\ Len(report'["TimeAtRisk"])
                 = Max(Len(report["TimeAtRisk"]), LastEntry(ClinOrDeath))
            /\ \A j \in 1..4 :
                 RiskAt(report', j) - RiskAt(report, j) =
                   IF j <= LastEntry(ClinOrDeath) THEN Min(ctime[j], ClinOrDeath) ELSE 0
       ELSE report'["TimeAtRisk"] = report["TimeAtRisk"]]_vars

\* the only individual of a run has died at 15, never clinical: TimeAtRisk
\* has the one entry 15
C31_Witness ==
  /\ driver = "calib" /\ n = 1 /\ pc = "done"
  /\ hist.lastMsg.kind = "toDeath" /\ hist.lastMsg.timestamp = 15 * Year
  /\ report["TimeAtRisk"] = <<15 * Year>>

\* ------------------------------------------------------------------ C32
\* the messages of screening
ScreeningKinds == {"toScreen", "toBiopsyFollowUpScreen", "toScreenInitiatedBiopsy"}

\* C32: in the cancer model, once dx # NotDiagnosed no screening message
\* (toScreen, toBiopsyFollowUpScreen or toScreenInitiatedBiopsy) is
\* dispatched for that individual, under every screening policy.
C32_NoScreeningAfterDiagnosis ==
  (driver = "fhcrc" /\ Handling /\ msg.kind \in ScreeningKinds)
    => person.dx = "NotDiagnosed"

\* C32, without the organised start and the follow-up after a biopsy: a
\* toScreen that was in the queue at the diagnosis is not dispatched; the
\* screens met after a diagnosis are those a toOrganised has scheduled after
\* it, and the toBiopsyFollowUpScreen left in the queue with what it leads to.
C32_ScreensRemovedAtDiagnosis ==
  (driver = "fhcrc" /\ Handling /\ msg.kind = "toScreen"
     /\ person.dx # "NotDiagnosed")
    => /\ person.organised
       /\ \E j \in 1..Len(hist.trace) :
            /\ hist.trace[j].kind = "toOrganised"
            /\ \E k \in 1..(j - 1) :
                 hist.trace[k].kind \in {"toClinicalDiagnosis", "toScreenDiagnosis"}

\* a man diagnosed clinically is invited to organised screening afterwards,
\* and his toScreen is dispatched
C32_Witness ==
  /\ driver = "fhcrc" /\ Handling /\ msg.kind = "toScreen"
  /\ person.dx = "ClinicalDiagnosis" /\ person.organised

\* ------------------------------------------------------------------ C33
\* the messages of a kind handled so far for the individual
HandledOf(kind) == {j \in 1..Len(hist.trace) : hist.trace[j].kind = kind}

\* C33: in the cancer model toTreatment is handled at most once per
\* individual, so at most one toCancerDeath message is ever scheduled (each
\* toTreatment schedules one, and nothing removes it).
C33_OneTreatment ==
  driver = "fhcrc" =>
    /\ Cardinality(HandledOf("toTreatment")) <= 1
    /\ Cardinality(Pending("toCancerDeath")) + Cardinality(HandledOf("toCancerDeath")) <= 1

\* C33, as the code has it: in a run that has not failed a toTreatment is
\* scheduled by each diagnosis message handled, and a toCancerDeath by each
\* toTreatment.
C33_TreatmentPerDiagnosis ==
  LET InHand(kind) == IF msg # NoMsg /\ msg.kind = kind THEN 1 ELSE 0
      Ever(kind) == Cardinality(HandledOf(kind)) + Cardinality(Pending(kind))
                      + InHand(kind)
  IN (driver = "fhcrc" /\ pc = "loop" /\ error = "none") =>
       /\ Ever("toTreatment") = Cardinality(HandledOf("toClinicalDiagnosis"))
                                  + Cardinality(HandledOf("toScreenDiagnosis"))
       /\ Ever("toCancerDeath") = Cardinality(HandledOf("toTreatment"))

\* a man has been treated twice and has two cancer deaths in the queue
C33_Witness ==
  /\ driver = "fhcrc" /\ JustHandled /\ hist.lastMsg.kind = "toTreatment"
  /\ Cardinality(HandledOf("toTreatment")) = 2
  /\ Cardinality(Pending("toCancerDeath")) = 2

\* ------------------------------------------------------------------ C34
\* age_c = (state == Localised) ? tc + 35.0 : tmc + 35.0 and
\* lead_time = age_c - now(), as the toTreatment being handled computes them
age_c == IF person.state = "Localised" THEN person.tc + 35 * Year
         ELSE person.tmc + 35 * Year
lead_time == age_c - clock

HandlingTreatment == driver = "fhcrc" /\ Handling /\ msg.kind = "toTreatment"

\* C34: whenever toTreatment is handled, lead_time = age_c - now() is >= 0,
\* and it is exactly 0 when the diagnosis was clinical.
C34_LeadTime ==
  HandlingTreatment =>
    /\ lead_time >= 0
    /\ person.dx = "ClinicalDiagnosis" => lead_time = 0

\* C34, for the first toTreatment of an individual
C34_LeadTimeFirstTreatment ==
  (HandlingTreatment /\ HandledOf("toTreatment") = {}) =>
    /\ lead_time >= 0
    /\ person.dx = "ClinicalDiagnosis" => lead_time = 0
    /\ (person.dx = "ScreenDiagnosis" /\ HandledOf("toClinicalDiagnosis") = {})
         => lead_time > 0

\* a second toTreatment is handled after the age of clinical diagnosis
C34_Witness ==
  /\ HandlingTreatment /\ HandledOf("toTreatment") # {}
  /\ lead_time < 0

\* ------------------------------------------------------------------ C35
\* C35: every scheduleAt call made by init() or by a handler of the cancer,
\* illness-death and calibration models uses a time t >= now(): no call is
\* refused as a time reversal, in any run of the three drivers.
C35_NeverInThePast ==
  driver \in {"fhcrc", "illness", "calib"} =>
    /\ error # "TimeReversal"
    /\ hist.refused = NoMsg

\* C35, as the code has it: the only scheduleAt with a time before now() is
\* that of toCancerDeath, in the toTreatment of a man treated before.
C35_PastOnlyInSecondTreatment ==
  (driver \in {"fhcrc", "illness", "calib"} /\ hist.refused # NoMsg) =>
    /\ driver = "fhcrc"
    /\ hist.refused.kind = "toCancerDeath" /\ hist.refused.timestamp < clock
    /\ hist.lastMsg.kind = "toTreatment"
    /\ Cardinality(HandledOf("toTreatment")) >= 2

\* the second toTreatment of a man has asked for a toCancerDeath before now()
C35_Witness ==
  /\ driver = "fhcrc" /\ error = "TimeReversal"
  /\ hist.lastMsg.kind = "toTreatment"
  /\ hist.refused.kind = "toCancerDeath" /\ hist.refused.timestamp < clock

\* ------------------------------------------------------------------ C36
\* C36: for each individual of the cancer and illness-death models the
\* intervals [previousEventTime, now()) passed to report.add by successive
\* handler calls tile the life course: the interval of the first message has
\* lhs = 0, that of every later message has as lhs the rhs of the preceding
\* one, and no interval runs backwards.
C36_IntervalsTile ==
  (driver \in {"fhcrc", "illness"} /\ Handling) =>
    /\ person.previousEventTime
         = IF hist.trace = <<>> THEN 0 ELSE hist.trace[Len(hist.trace)].time
    /\ person.previousEventTime <= clock

\* the second individual of a run is at a later message, after a first
\* message at a positive age; and at the first message, the individual before
\* having left a positive time
C36_Witness ==
  /\ driver \in {"fhcrc", "illness"} /\ Handling /\ i = 1
  /\ Len(hist.trace) >= 1
  /\ person.previousEventTime > 0 /\ person.previousEventTime < clock
C36_WitnessFirst ==
  /\ driver \in {"fhcrc", "illness"} /\ Handling /\ i = 1
  /\ hist.trace = <<>> /\ clock > 0

\* ------------------------------------------------------------------ C37
\* C37: in the cancer model dx # NotDiagnosed implies that state is
\* Localised or Metastatic (a Healthy man is never diagnosed), and after a
\* diagnosis no handler changes state or takes the diagnosis back.
C37_DiagnosedHasCancer ==
  [][driver = "fhcrc" =>
       /\ person'.dx # "NotDiagnosed" => person'.state \in {"Localised", "Metastatic"}
       /\ (pc = "loop" /\ person.dx # "NotDiagnosed") =>
            /\ person'.state = person.state
            /\ person'.dx # "NotDiagnosed"]_vars

\* a man diagnosed in state Localised, whose toMetastatic was due later, has
\* died of other causes after the age it was due at, still Localised
C37_Witness ==
  /\ driver = "fhcrc" /\ JustHandled
  /\ person.dx # "NotDiagnosed" /\ person.state = "Localised"
  /\ clock > person.tm + 35 * Year
  /\ \E j \in 1..Len(hist.trace) : hist.trace[j].kind = "toTreatment"

\* ------------------------------------------------------------------ C38
\* the position of a stream in its substream
Position(r, s) == r.streams[s].pos

\* a handler of the cancer model runs in this step
FhcrcHandling == driver = "fhcrc" /\ pc = "loop" /\ msg # NoMsg /\ msg' = NoMsg

\* C38: in the cancer model the current stream is rngNh at the end of init()
\* and at the entry of every handleMessage call, so the PSA draw at the top
\* of the handler reads rngNh: every handler advances rngNh, rngScreen is
\* advanced by the screens only and rngTreatment by toTreatment only, and
\* rngOther and the host's own generator are never read.
C38_NaturalHistoryStreamAtEntry ==
  [][driver = "fhcrc" =>
       /\ (pc' \in {"run", "loop"}) => rng'.current = "Nh"
       /\ FhcrcHandling =>
            /\ rng.current = "Nh"
            /\ Position(rng', "Nh") > Position(rng, "Nh")
            /\ msg.kind \notin ScreenKinds =>
                 Position(rng', "Screen") = Position(rng, "Screen")
            /\ Position(rng', "Treatment") - Position(rng, "Treatment")
                 = IF msg.kind = "toTreatment" THEN 2 ELSE 0
            /\ Position(rng', "Other") = Position(rng, "Other")
            /\ Position(rng', Host) = Position(rng, Host)]_vars

\* a message is dispatched after a screen that drew its rescreening time
\* from rngScreen, and after a toTreatment that drew from rngTreatment
C38_Witness ==
  /\ driver = "fhcrc" /\ Handling /\ rng.current = "Nh"
  /\ hist.lastMsg.kind \in ScreenKinds
  /\ \E l \in hist.lookups : l.table = "rescreening"
C38_WitnessTreatment ==
  /\ driver = "fhcrc" /\ Handling /\ rng.current = "Nh"
  /\ hist.lastMsg.kind = "toTreatment" /\ Position(rng, "Treatment") = 2

====
